---- MODULE Spec2Model ----
(***************************************************************************)
(* Admission-and-reliable-delivery pipeline of the scraper service:        *)
(*   - QueueService (src/src/services/queue-service.ts): lazy broker       *)
(*     connection, publishArticleJob, consumeArticleJobs with its message  *)
(*     callback (ack / delayed nack-requeue / nack without requeue);       *)
(*   - processArticleJob and startQueueConsumer (the server entry file,    *)
(*     stored in src/src/middleware/ip-access.ts from line 54 on);         *)
(*   - ipAccessMiddleware (src/src/middleware/ip-access.ts lines 1-52),    *)
(*     IpAccessService (src/unnamed/part_001) and the /api/ip routes       *)
(*     (src/src/routes/ip.routes.ts).                                      *)
(* The broker (RabbitMQ through amqplib) is modelled by what the code      *)
(* relies on: a queue of messages, one consumer with a prefetch window,    *)
(* per-channel unacknowledged deliveries, and basic.ack / basic.nack.      *)
(***************************************************************************)
EXTENDS Integers, Sequences, FiniteSets, TLC

\* ------------------------------------------------------------------ bounds
MaxJobs == 2          \* messages that ever enter the queue
MaxForeign == 1       \* of these, messages put there by another producer
MaxChannels == 2      \* broker connections the process ever opens
MaxRequeues == 4      \* requeues counted per job (the count saturates there)
MaxLate == 1          \* ticks a due backoff timer is followed past its delay
MaxIps == 2           \* client addresses
MaxInflight == 2      \* requestIp calls between their lookup and their create at once
MaxRows == 1          \* ledger entries the admin calls are followed on
MaxClock == 1         \* milliseconds Date.now() is followed for
MaxSuffix == 1        \* values each half of a Math.random() digit string takes
RandomGrain == 12     \* values Math.random() is drawn from: 0/12 .. 11/12
MaxSecrets == 2       \* non-empty webhook secrets
MaxArticles == 3      \* articles a webhook payload may carry

\* ------------------------------------------------------- program constants
MaxRetries == 3       \* `if (retryCount < 3)`
BackoffBaseMs == 1000 \* `Math.pow(2, retryCount) * 1000`; also one tick of time
DefaultPrefetch == 1  \* `options.prefetch || 1`
ConsumerPrefetch == 1 \* `{ prefetch: 1 }` passed by startQueueConsumer
NumQuotes == 10       \* BLACKLIST_QUOTES.length
RateMax == 5          \* `rateLimit({ windowMs: 60_000, max: 5 })` on the article routes

NoHeader == -1        \* message published without an x-retry-count header
JobIds == 1..MaxJobs
ForeignHeaders == 0..3
\* what chatgptScraper.generateContent resolves to: [success, content present]
GenOutcomes == {<<TRUE, TRUE>>, <<TRUE, FALSE>>, <<FALSE, FALSE>>}
WebhookOutcomes == {"ok", "timeout", "non2xx", "unreachable"}

VARIABLES
  articleService,  \* server entry: `let articleService` is set (TRUE) or null
  channel,         \* QueueService.channel: 0 is null, else the channel's id
  connection,      \* QueueService.connection: 0 is null, else the connection's id
  nextChan,        \* id the next opened connection (and its channel) gets
  openConns,       \* broker side: connections that are open
  openChans,       \* broker side: channels that are open
  consumerStarted, \* startQueueConsumer has been called (once, from listen)
  consumerChan,    \* broker side: channel the consumer is registered on, 0 if none
  prefetch,        \* broker side: prefetch window of that channel
  jobs,            \* broker side: the messages, by id
  cb,              \* process side: the message callback's invocation per message
  uncaught,        \* an exception escaped a callback of the process
  foreignCount,    \* messages other producers have put on the queue so far
  ledger,          \* the ipAccess table, by ip
  inflight,        \* requestIp calls that found no row and have not created yet
  adminKey,        \* process.env.ADMIN_API_KEY: 0 is unset
  lastGate,        \* the latest public request at ipAccessMiddleware: its ip, the
                   \* ip's row then, what the lookup gave, and the response
  clock,           \* Date.now(), in milliseconds since the process started
  hits,            \* rate limiter of the generation route followed: requests counted
                   \* per client in the current window
  lastSubmit,      \* the latest request to a generation endpoint and its response
  lastAccess,      \* the latest POST /api/ip/request call that ended, and its response
  lastAdmin,       \* the latest admin call and its response
  qcalls,          \* QueueService calls in progress, by caller: where each stands
  hook,            \* the webhook notification followed: its inputs and what was POSTed
  shutdown         \* the SIGINT/SIGTERM handler: "none" before the signal, "closed"
                   \* once its `await queueService.close()` has returned

workerVars == <<articleService, channel, connection, nextChan, openConns, openChans,
                consumerStarted, consumerChan, prefetch, jobs, cb, uncaught,
                foreignCount>>

gateVars == <<ledger, inflight, adminKey, lastGate>>

frontVars == <<clock, hits, lastSubmit, lastAccess, lastAdmin, qcalls, hook,
              shutdown>>

vars == <<workerVars, gateVars, frontVars>>

RECURSIVE Pow2(_)
Pow2(n) == IF n <= 0 THEN 1 ELSE 2 * Pow2(n - 1)

\* -------------------------------------------------------------- messages
\* id, createdAt: as in the message body; url: the body has the webhook fields;
\* mid: the messageId property; ret: the publish call returned the id to its caller;
\* parses: the content is JSON text
NoId == <<>>
AbsentJob == [st |-> "absent", src |-> "none", hdr |-> NoHeader, url |-> FALSE,
              chan |-> 0, requeues |-> 0, id |-> NoId, mid |-> NoId, ret |-> FALSE,
              createdAt |-> -1, parses |-> TRUE]

\* pc: where the callback is; chan: the channel that delivered; rc: the retry count
\* it read; prevRc: the retry count of the delivery whose requeue led to this one
\* (-1 if none); gen, wh: how generation and the webhook POST ended; handler: how
\* the handler ended; ackThrew: channel.ack raised; settle: the last of ack,
\* nack-requeue ("requeue") and nack-without-requeue ("drop") the callback called,
\* and effect: what came of it; remaining, waited: ms left on, and spent in, its
\* backoff timer; late: ticks the timer is past due
IdleCb == [pc |-> "idle", chan |-> 0, rc |-> 0, prevRc |-> -1, gen |-> "none",
           wh |-> "none", handler |-> "none", ackThrew |-> FALSE, settle |-> "none",
           effect |-> "none", remaining |-> 0, waited |-> 0, late |-> 0]

\* the callback is over: what is kept is what it read and did
Over(c, kind, how) == [c EXCEPT !.pc = "done", !.settle = kind, !.effect = how,
                                !.chan = 0, !.prevRc = -1, !.remaining = 0,
                                !.waited = 0, !.late = 0]

FreeIds == {j \in JobIds : jobs[j].st = "absent"}

\* a draw of Math.random() written in base 36: "0." and five digits (head), then
\* the digits that follow (tail; 0 is none at all, as in "0.i")
IdDraws == (0..1) \X (0..MaxSuffix)

\* `.toString(36).substring(7)`: the text after "0." and the first five digits
Suffix(d) == d[2]

\* `article-${Date.now()}-${Math.random().toString(36).substring(7)}`
JobId(now, d) == <<now, Suffix(d)>>

\* the draw the worker's view lets every publish make: the worker never reads ids
OneDraw == <<0, 0>>

\* the message the publisher builds, `id: jobId` and `createdAt: Date.now()` in the
\* body and `messageId: jobId` in the options; no headers option is passed to
\* publish()
PublishedMessage(url, id, now) ==
  [AbsentJob EXCEPT !.st = "ready", !.src = "pub", !.url = url, !.id = id, !.mid = id,
                    !.createdAt = now]

\* a message another producer put on the durable queue, with a retry header
ForeignMessage(h) == [AbsentJob EXCEPT !.st = "ready", !.src = "foreign", !.hdr = h]

\* a message another producer put on the queue whose content is not JSON text
GarbageMessage ==
  [AbsentJob EXCEPT !.st = "ready", !.src = "foreign", !.parses = FALSE]

\* `(msg.properties.headers?.['x-retry-count'] || 0) as number`
RetryCountOf(hdr) == IF hdr = NoHeader \/ hdr = 0 THEN 0 ELSE hdr

\* variant: the cap compared with <= instead of <
ShouldRequeue_Inclusive(rc) == rc <= MaxRetries

\* `if (retryCount < 3)`
ShouldRequeue(rc) == rc < MaxRetries

\* variant: a linear delay instead of the exponential one
RetryDelay_Linear(rc) == rc * BackoffBaseMs

\* `const retryDelay = Math.pow(2, retryCount) * 1000`
RetryDelay(rc) == Pow2(rc) * BackoffBaseMs

\* ---------------------------------------------------------------- broker
\* basic.ack of delivery j: the broker deletes the message
BrokerAck(js, j) == [js EXCEPT ![j] = [AbsentJob EXCEPT !.st = "acked"]]

\* variant: the requeue puts a rebuilt message on the queue, without the webhook
\* fields
BrokerNack_Rebuilt(js, j, requeue) ==
  IF requeue
    THEN [js EXCEPT ![j].st = "ready", ![j].chan = 0, ![j].url = FALSE,
                    ![j].requeues = IF @ < MaxRequeues THEN @ + 1 ELSE @]
    ELSE [js EXCEPT ![j] = [AbsentJob EXCEPT !.st = "dropped"]]

\* basic.nack of delivery j: `nack(msg, false, requeue)` names the delivery only;
\* the requeued message keeps the properties and headers it was published with;
\* without requeue the message is discarded (the queue declares no dead-letter
\* exchange)
BrokerNack(js, j, requeue) ==
  IF requeue
    THEN [js EXCEPT ![j].st = "ready", ![j].chan = 0,
                    ![j].requeues = IF @ < MaxRequeues THEN @ + 1 ELSE @]
    ELSE [js EXCEPT ![j] = [AbsentJob EXCEPT !.st = "dropped"]]

\* a channel that closes returns its unacknowledged deliveries to the queue
BrokerReleaseChan(js, c) ==
  [j \in JobIds |-> IF js[j].st = "unacked" /\ js[j].chan = c
                      THEN [js[j] EXCEPT !.st = "ready", !.chan = 0]
                      ELSE js[j]]

Unacked(c) == {j \in JobIds : jobs[j].st = "unacked" /\ jobs[j].chan = c}

\* ------------------------------------------------------------ connection
\* `if (!this.channel) await this.connect()`: the fields after the lazy connect;
\* threw is the exception connect() rethrows when the broker cannot be reached
EnsureChannel(ok) ==
  IF channel # 0
    THEN [channel |-> channel, connection |-> connection, nextChan |-> nextChan,
          openConns |-> openConns, openChans |-> openChans, threw |-> FALSE]
  ELSE IF ok /\ nextChan <= MaxChannels
    THEN [channel |-> nextChan, connection |-> nextChan, nextChan |-> nextChan + 1,
          openConns |-> openConns \cup {nextChan},
          openChans |-> openChans \cup {nextChan}, threw |-> FALSE]
  ELSE [channel |-> channel, connection |-> connection, nextChan |-> nextChan,
        openConns |-> openConns, openChans |-> openChans, threw |-> TRUE]

ApplyConn(e) ==
  /\ channel' = e.channel
  /\ connection' = e.connection
  /\ nextChan' = e.nextChan
  /\ openConns' = e.openConns
  /\ openChans' = e.openChans

\* variant: the listener leaves the field alone
OnClose_Keep(held, c) == held

\* the 'close' listener of a connection: `this.channel = null`, whichever channel
\* is held (held) and whichever connection closed (c)
OnClose(held, c) == 0

\* ------------------------------------------------------------ access ledger
Ips == 1..MaxIps
Unknown == 0          \* the literal 'unknown' the middleware falls back to
Blank == -1           \* an empty header entry, or an undefined req.ip
Keys == Ips \cup {Unknown}
Notes == {0, 1}       \* 0: no note given
Statuses == {"PENDING", "WHITELIST", "BLACKLIST"}
NullTime == -1        \* a timestamp column that holds null
NoEntry == [ip |-> Blank, status |-> "ABSENT", note |-> 0,
            requestedAt |-> NullTime, approvedAt |-> NullTime]

\* ipAccess.create({ data: { ip, note } }): the status column defaults to PENDING,
\* requestedAt to the time of the insert, approvedAt to null
NewEntry(ip, note, now) ==
  [ip |-> ip, status |-> "PENDING", note |-> note, requestedAt |-> now,
   approvedAt |-> NullTime]

\* variant: the insert written as an upsert
CreateOutcome_Upsert(row, ip, note, now) ==
  [row |-> NewEntry(ip, note, now), threw |-> FALSE]

\* ipAccess.create on the table as it is by then: the unique index on ip makes the
\* insert throw when a row for the ip exists
CreateOutcome(row, ip, note, now) ==
  IF row.status = "ABSENT"
    THEN [row |-> NewEntry(ip, note, now), threw |-> FALSE]
    ELSE [row |-> row, threw |-> TRUE]

\* variant: every status update stamps
UpdatedRow_StampAlways(row, status, now) ==
  [row EXCEPT !.status = status, !.approvedAt = now]

\* variant: a blacklisted row stays blacklisted
UpdatedRow_Sticky(row, status, now) ==
  IF row.status = "BLACKLIST" THEN row
  ELSE [row EXCEPT !.status = status,
                   !.approvedAt = IF status = "WHITELIST" THEN now ELSE @]

\* variant: the update writes the whole row anew
UpdatedRow_Touch(row, status, now) ==
  [row EXCEPT !.status = status, !.requestedAt = now,
              !.approvedAt = IF status = "WHITELIST" THEN now ELSE @]

\* updateStatus: `data = { status }; if (status === 'WHITELIST') data.approvedAt =
\* new Date()`; update() writes the columns in data and no other
UpdatedRow(row, status, now) ==
  [row EXCEPT !.status = status,
              !.approvedAt = IF status = "WHITELIST" THEN now ELSE @]

\* variant: the header's last entry is taken
ResolveIp_Last(fwd, sock) ==
  LET last == IF fwd = <<>> THEN Blank ELSE fwd[Len(fwd)] IN
    IF last # Blank THEN last ELSE IF sock # Blank THEN sock ELSE Unknown

\* `forwarded.split(',')[0].trim() || req.ip || req.connection.remoteAddress ||
\* 'unknown'`; fwd is the header's comma-separated entries (<<>>: no header)
ResolveIp(fwd, sock) ==
  LET first == IF fwd = <<>> THEN Blank ELSE fwd[1] IN
    IF first # Blank THEN first ELSE IF sock # Blank THEN sock ELSE Unknown

\* variant: the index scaled by one more than the array holds
pickQuote_Overrun(r) ==
  LET i == (r * (NumQuotes + 1)) \div RandomGrain
  IN IF i \in 0..(NumQuotes - 1) THEN i ELSE -1

\* `BLACKLIST_QUOTES[Math.floor(Math.random() * BLACKLIST_QUOTES.length)]` with
\* Math.random() = r / RandomGrain: the phrase's index, -1 for undefined
pickQuote(r) ==
  LET i == (r * NumQuotes) \div RandomGrain
  IN IF i \in 0..(NumQuotes - 1) THEN i ELSE -1

\* variant: only the blacklist is turned away
GateResponse_PendingPasses(seen, r) ==
  IF seen = "BLACKLIST"
    THEN [out |-> "403", msg |-> IF pickQuote(r) >= 0 THEN "quote" ELSE "undefined",
          quote |-> pickQuote(r)]
    ELSE IF seen = "ABSENT" THEN [out |-> "403", msg |-> "request", quote |-> -1]
    ELSE [out |-> "next", msg |-> "none", quote |-> -1]

\* variant: a failed lookup is answered like a missing row
GateResponse_FailClosed(seen, r) ==
  IF seen \in {"error", "ABSENT"} THEN [out |-> "403", msg |-> "request", quote |-> -1]
  ELSE IF seen = "PENDING" THEN [out |-> "403", msg |-> "waiting", quote |-> -1]
  ELSE IF seen = "BLACKLIST"
    THEN [out |-> "403", msg |-> IF pickQuote(r) >= 0 THEN "quote" ELSE "undefined",
          quote |-> pickQuote(r)]
  ELSE [out |-> "next", msg |-> "none", quote |-> -1]

\* the body of ipAccessMiddleware after the lookup: seen is the row's status,
\* "ABSENT" for no row, "error" when getByIp threw (the catch block calls next)
GateResponse(seen, r) ==
  IF seen = "error" THEN [out |-> "next", msg |-> "none", quote |-> -1]
  ELSE IF seen = "ABSENT" THEN [out |-> "403", msg |-> "request", quote |-> -1]
  ELSE IF seen = "PENDING" THEN [out |-> "403", msg |-> "waiting", quote |-> -1]
  ELSE IF seen = "BLACKLIST"
    THEN [out |-> "403", msg |-> IF pickQuote(r) >= 0 THEN "quote" ELSE "undefined",
          quote |-> pickQuote(r)]
  ELSE [out |-> "next", msg |-> "none", quote |-> -1]

\* what the observers of the HTTP responses hold before any response
\* gate: what the ip check did; lookedUp: the ledger was asked; limited: the rate
\* limiter rejected; tried: publishArticleJob was called; published: the message
\* went to the broker; sent: what channel.publish returned; slot: the job
NoSubmit == [route |-> "none", ip |-> Unknown, gate |-> "none", lookedUp |-> FALSE,
             limited |-> FALSE, tried |-> FALSE, published |-> FALSE, sent |-> FALSE,
             slot |-> 0, resp |-> "none"]
\* the QueueService operations that connect lazily, one call of each followed
Callers == {"publish", "consume", "status"}
\* pc: where the call stands; lazy: it found no channel and called connect();
\* conn: the connection its connect() opened; declared: its connect() returned;
\* id: the jobId it made; used: the channel its operation was invoked on;
\* out: how the call ended
IdleCall == [pc |-> "idle", lazy |-> FALSE, conn |-> 0, declared |-> FALSE,
             id |-> NoId, used |-> 0, out |-> "none"]
\* job.webhookSecret / secret: undefined, the empty string, or a non-empty string
NoSecret == -1
EmptySecret == 0
Secrets == {NoSecret, EmptySecret} \cup (1..MaxSecrets)
HookTypes == {"none", "article", "novel"}
NoSignature == <<>>
\* no notification followed
\* by: the sender; outcome: how the POST (or the serializing before it) ended;
\* rejected: the sender's promise rejected
NoHook == [url |-> FALSE, secret |-> NoSecret, jobId |-> 0, data |-> 0,
           st |-> "idle", posted |-> FALSE, body |-> <<>>, signature |-> NoSignature,
           contentType |-> "none", type |-> "none", by |-> "none",
           outcome |-> "none", rejected |-> FALSE]
NoAccess == [ip |-> Unknown, out |-> "none", status |-> "none", note |-> 0]
NoAdmin == [mount |-> "none", op |-> "none", id |-> Unknown, status |-> "none",
            authorized |-> FALSE, resp |-> "none", read |-> FALSE, wrote |-> FALSE]

\* the process after construction: no service, no connection, nothing consumed
WorkerInit ==
  /\ articleService = FALSE
  /\ channel = 0
  /\ connection = 0
  /\ nextChan = 1
  /\ openConns = {}
  /\ openChans = {}
  /\ consumerStarted = FALSE
  /\ consumerChan = 0
  /\ prefetch = 0
  /\ jobs = [j \in JobIds |-> AbsentJob]
  /\ cb = [j \in JobIds |-> IdleCb]
  /\ uncaught = FALSE
  /\ foreignCount = 0

\* an empty ipAccess table and no request seen yet
LedgerInit ==
  /\ ledger = [ip \in Keys |-> NoEntry]
  /\ inflight = [ip \in Ips |-> 0]
  /\ lastGate = [ip |-> Unknown, row |-> "none", seen |-> "none", out |-> "none",
                 msg |-> "none", quote |-> -1]

\* no request answered yet, the limiter's window empty
AnswersInit ==
  /\ clock = 0
  /\ hits = [k \in Keys |-> 0]
  /\ lastSubmit = NoSubmit
  /\ lastAccess = NoAccess
  /\ lastAdmin = NoAdmin

\* and no QueueService call under way, no notification followed, no signal yet
FrontInit ==
  /\ AnswersInit
  /\ qcalls = [c \in Callers |-> IdleCall]
  /\ hook = NoHook
  /\ shutdown = "none"

\* the worker's view: the admin key plays no part in it
Init == WorkerInit /\ LedgerInit /\ FrontInit /\ adminKey = 0

\* the gate's view: the server runs with or without ADMIN_API_KEY
InitGate == WorkerInit /\ LedgerInit /\ FrontInit /\ adminKey \in {0, 1}

\* --------------------------------------------------------- server start-up
\* initializeServices: a first connect inside its own try/catch, then the scraper
\* and the article service are created (a failure there ends the process)
InitializeServices(connOk) ==
  /\ ~articleService
  /\ ~uncaught
  /\ ApplyConn(EnsureChannel(connOk))
  /\ articleService' = TRUE
  /\ UNCHANGED <<consumerStarted, consumerChan, prefetch, jobs, cb, uncaught,
                 foreignCount, gateVars, frontVars>>

\* variant: a prefetch window one wider than requested
Prefetch_Wider(requested) == requested + 1

\* `const prefetch = options.prefetch || 1`
Prefetch(requested) == IF requested # 0 THEN requested ELSE DefaultPrefetch

\* startQueueConsumer -> consumeArticleJobs(handler, {prefetch: 1}); called once,
\* from the listen callback; whatever consumeArticleJobs throws is logged and dropped
StartQueueConsumer(connOk) ==
  /\ articleService
  /\ ~consumerStarted
  /\ ~uncaught
  /\ consumerStarted' = TRUE
  /\ LET e == EnsureChannel(connOk) IN
       /\ ApplyConn(e)
       /\ IF ~e.threw /\ e.channel \in e.openChans
            THEN /\ consumerChan' = e.channel
                 /\ prefetch' = Prefetch(ConsumerPrefetch)
            ELSE UNCHANGED <<consumerChan, prefetch>>
  /\ UNCHANGED <<articleService, jobs, cb, uncaught, foreignCount, gateVars, frontVars>>

\* ------------------------------------------------------------- publishing
\* variant: the return value of channel.publish is not looked at
PublishThrew_IgnoreFlow(failed, sent) == failed

\* publishArticleJob throws when connecting or publish() threw (failed), and on
\* `if (!published) throw new Error('Failed to publish message to queue')`
PublishThrew(failed, sent) == failed \/ ~sent

\* publishArticleJob: lazy connect, then channel.publish with persistent and
\* messageId options only; a closed channel or a failed connect throws
\* sent is what channel.publish returns: false when the socket's write buffer is
\* full, the message being buffered and sent all the same; d is the random draw
PublishEffect(url, connOk, sent, d) ==
  LET e == EnsureChannel(connOk)
      j == CHOOSE k \in FreeIds : \A m \in FreeIds : k <= m
      written == ~e.threw /\ e.channel \in e.openChans
      threw == PublishThrew(~written, sent)
      id == JobId(clock, d)
  IN [e |-> e, threw |-> threw, id |-> id, slot |-> j,
      jobs |-> IF written
                 THEN [jobs EXCEPT ![j] = [PublishedMessage(url, id, clock)
                                             EXCEPT !.ret = ~threw]]
                 ELSE jobs]

PublishArticleJob(url, connOk, sent, d) ==
  /\ ~uncaught
  /\ FreeIds # {}
  /\ LET p == PublishEffect(url, connOk, sent, d)
     IN /\ ApplyConn(p.e)
        /\ jobs' = p.jobs
  /\ UNCHANGED <<articleService, consumerStarted, consumerChan, prefetch, cb, uncaught,
                 foreignCount, gateVars, frontVars>>

\* a message that reaches the durable queue from another producer: the callback
\* reads whatever x-retry-count header the delivery carries
ForeignPublish(h) ==
  /\ FreeIds # {}
  /\ foreignCount < MaxForeign
  /\ foreignCount' = foreignCount + 1
  /\ LET j == CHOOSE k \in FreeIds : \A m \in FreeIds : k <= m
     IN jobs' = [jobs EXCEPT ![j] = ForeignMessage(h)]
  /\ UNCHANGED <<articleService, channel, connection, nextChan, openConns, openChans,
                 consumerStarted, consumerChan, prefetch, cb, uncaught, gateVars, frontVars>>

\* another producer puts a message that is not JSON text on the queue
GarbagePublish ==
  /\ FreeIds # {}
  /\ foreignCount < MaxForeign
  /\ foreignCount' = foreignCount + 1
  /\ LET j == CHOOSE k \in FreeIds : \A m \in FreeIds : k <= m
     IN jobs' = [jobs EXCEPT ![j] = GarbageMessage]
  /\ UNCHANGED <<articleService, channel, connection, nextChan, openConns, openChans,
                 consumerStarted, consumerChan, prefetch, cb, uncaught, gateVars, frontVars>>

\* ------------------------------------------------------ settling a delivery
\* `this.channel.ack(msg)` / `this.channel.nack(msg, false, requeue)` with a channel
\* held: a closed channel throws; the delivering channel settles the delivery; any
\* other channel does not know the delivery tag and is closed by the broker
Settle(j, kind) ==
  IF channel \notin openChans
    THEN [jobs |-> jobs, openChans |-> openChans, consumerChan |-> consumerChan,
          how |-> "threw"]
  ELSE IF channel = cb[j].chan /\ jobs[j].st = "unacked" /\ jobs[j].chan = channel
    THEN [jobs |-> IF kind = "ack" THEN BrokerAck(jobs, j)
                   ELSE BrokerNack(jobs, j, kind = "requeue"),
          openChans |-> openChans, consumerChan |-> consumerChan, how |-> "ok"]
  ELSE [jobs |-> BrokerReleaseChan(jobs, channel),
        openChans |-> openChans \ {channel},
        consumerChan |-> IF consumerChan = channel THEN 0 ELSE consumerChan,
        how |-> "stray"]

\* the catch block of the message callback, entered with callback record c0
OnHandlerError(j, c0) ==
  IF channel = 0
    THEN /\ cb' = [cb EXCEPT ![j] = Over(c0, c0.settle, c0.effect)]
         /\ UNCHANGED <<jobs, openChans, consumerChan, uncaught>>
  ELSE IF ShouldRequeue(c0.rc)
    THEN /\ cb' = [cb EXCEPT ![j] = [c0 EXCEPT !.pc = "backoff",
                                               !.remaining = RetryDelay(c0.rc),
                                               !.waited = 0, !.late = 0]]
         /\ UNCHANGED <<jobs, openChans, consumerChan, uncaught>>
  ELSE LET s == Settle(j, "drop") IN
         /\ cb' = [cb EXCEPT ![j] = Over(c0, "drop", s.how)]
         /\ jobs' = s.jobs
         /\ openChans' = s.openChans
         /\ consumerChan' = s.consumerChan
         /\ uncaught' = (s.how = "threw")

\* `await handler(job)` returned: `this.channel.ack(msg)` inside the try block
OnHandlerReturn(j, c0) ==
  IF channel = 0
    THEN /\ cb' = [cb EXCEPT ![j] = Over(c0, "none", "none")]
         /\ UNCHANGED <<jobs, openChans, consumerChan, uncaught>>
  ELSE LET s == Settle(j, "ack") IN
         IF s.how = "threw"
           THEN OnHandlerError(j, [c0 EXCEPT !.ackThrew = TRUE, !.settle = "ack",
                                             !.effect = "threw"])
           ELSE /\ cb' = [cb EXCEPT ![j] = Over(c0, "ack", s.how)]
                /\ jobs' = s.jobs
                /\ openChans' = s.openChans
                /\ consumerChan' = s.consumerChan
                /\ UNCHANGED uncaught

\* ------------------------------------------------------ the message callback
\* `const job: ArticleJob = JSON.parse(msg.content.toString())`, the callback's
\* first statement after the null check and outside its try block
ParseThrows(msg) == ~msg.parses

\* the broker hands a ready message to the consumer while the channel's
\* unacknowledged deliveries are below its prefetch window; the callback parses
\* it, returns at once when no channel is held, and otherwise calls the handler,
\* which awaits articleService.generateArticle
Deliver(j) ==
  /\ ~uncaught
  /\ consumerChan # 0
  /\ consumerChan \in openChans
  /\ jobs[j].st = "ready"
  /\ Cardinality(Unacked(consumerChan)) < prefetch
  /\ jobs' = [jobs EXCEPT ![j].st = "unacked", ![j].chan = consumerChan]
  /\ cb' = [cb EXCEPT ![j] =
              IF ParseThrows(jobs[j])
                THEN [IdleCb EXCEPT !.pc = "done"]
                ELSE [IdleCb EXCEPT
                        !.pc = IF channel # 0 THEN "generating" ELSE "done",
                        !.chan = IF channel # 0 THEN consumerChan ELSE 0,
                        !.rc = RetryCountOf(jobs[j].hdr),
                        !.prevRc = IF cb[j].settle = "requeue"
                                     THEN cb[j].rc ELSE -1]]
  /\ uncaught' = ParseThrows(jobs[j])
  /\ UNCHANGED <<articleService, channel, connection, nextChan, openConns, openChans,
                 consumerStarted, consumerChan, prefetch, foreignCount,
                 gateVars, frontVars>>

\* variant: only the success flag is looked at
GenerationSucceeds_FlagOnly(out) == out[1]

\* generateArticle: `if (!response.success || !response.content) throw`
GenerationSucceeds(out) == out[1] /\ out[2]

\* variant: the webhook catch block rethrows
WebhookFailureThrows_Rethrow(w) == TRUE

\* processArticleJob catches what the webhook POST throws and does not rethrow
WebhookFailureThrows(w) == FALSE

\* variant: the POST is made whether or not the job names a URL
WantsWebhook_Always(job) == TRUE

\* processArticleJob after generateArticle returned: `if (job.webhookUrl)`
WantsWebhook(job) == job.url

\* generateArticle settles: on success the handler goes on to the webhook POST
\* when the job has a webhookUrl, and returns otherwise; on failure it rethrows
GenerateDone(j, out) ==
  /\ ~uncaught
  /\ cb[j].pc = "generating"
  /\ LET c0 == [cb[j] EXCEPT
                  !.gen = IF GenerationSucceeds(out) THEN "ok" ELSE "fail"]
     IN
       IF GenerationSucceeds(out)
         THEN IF WantsWebhook(jobs[j])
                THEN /\ cb' = [cb EXCEPT ![j] = [c0 EXCEPT !.pc = "webhook"]]
                     /\ UNCHANGED <<jobs, openChans, consumerChan, uncaught>>
                ELSE OnHandlerReturn(j, [c0 EXCEPT !.handler = "returned"])
         ELSE OnHandlerError(j, [c0 EXCEPT !.handler = "threw"])
  /\ UNCHANGED <<articleService, channel, connection, nextChan, openConns,
                 consumerStarted, prefetch, foreignCount, gateVars, frontVars>>

\* axios.post(job.webhookUrl, ...) settles, one way or another
WebhookDone(j, w) ==
  /\ ~uncaught
  /\ cb[j].pc = "webhook"
  /\ LET c0 == [cb[j] EXCEPT !.wh = IF w = "ok" THEN "ok" ELSE "fail"] IN
       IF w # "ok" /\ WebhookFailureThrows(w)
         THEN OnHandlerError(j, [c0 EXCEPT !.handler = "threw"])
         ELSE OnHandlerReturn(j, [c0 EXCEPT !.handler = "returned"])
  /\ UNCHANGED <<articleService, channel, connection, nextChan, openConns,
                 consumerStarted, prefetch, foreignCount, gateVars, frontVars>>

\* the setTimeout callback: `if (this.channel) this.channel.nack(msg, false, true)`
TimerFire(j) ==
  /\ ~uncaught
  /\ cb[j].pc = "backoff"
  /\ cb[j].remaining = 0
  /\ IF channel = 0
       THEN /\ cb' = [cb EXCEPT ![j] = Over(cb[j], cb[j].settle, cb[j].effect)]
            /\ UNCHANGED <<jobs, openChans, consumerChan, uncaught>>
       ELSE LET s == Settle(j, "requeue") IN
              /\ cb' = [cb EXCEPT ![j] = Over(cb[j], "requeue", s.how)]
              /\ jobs' = s.jobs
              /\ openChans' = s.openChans
              /\ consumerChan' = s.consumerChan
              /\ uncaught' = (s.how = "threw")
  /\ UNCHANGED <<articleService, channel, connection, nextChan, openConns,
                 consumerStarted, prefetch, foreignCount, gateVars, frontVars>>

\* time passes for the pending backoff timers
Tick ==
  /\ ~uncaught
  /\ \E j \in JobIds : /\ cb[j].pc = "backoff"
                       /\ (cb[j].remaining > 0 \/ cb[j].late < MaxLate)
  /\ cb' = [j \in JobIds |->
              IF cb[j].pc = "backoff"
                THEN [cb[j] EXCEPT
                        !.remaining = IF @ > BackoffBaseMs THEN @ - BackoffBaseMs ELSE 0,
                        !.waited = @ + BackoffBaseMs,
                        !.late = IF cb[j].remaining = 0 /\ @ < MaxLate THEN @ + 1 ELSE @]
                ELSE cb[j]]
  /\ UNCHANGED <<articleService, channel, connection, nextChan, openConns, openChans,
                 consumerStarted, consumerChan, prefetch, jobs, uncaught, foreignCount,
                 gateVars, frontVars>>

\* the broker connection drops: the 'close' listener registered in connect() sets
\* this.channel to null; the broker requeues what was unacknowledged on it and
\* forgets the consumer
ConnectionClose(c) ==
  /\ ~uncaught
  /\ c \in openConns
  /\ openConns' = openConns \ {c}
  /\ openChans' = openChans \ {c}
  /\ channel' = OnClose(channel, c)
  /\ jobs' = BrokerReleaseChan(jobs, c)
  /\ consumerChan' = IF consumerChan = c THEN 0 ELSE consumerChan
  /\ UNCHANGED <<articleService, connection, nextChan, consumerStarted, prefetch, cb,
                 uncaught, foreignCount, gateVars, frontVars>>

Next ==
  \/ \E ok \in BOOLEAN : InitializeServices(ok)
  \/ \E ok \in BOOLEAN : StartQueueConsumer(ok)
  \/ \E url \in BOOLEAN, ok \in BOOLEAN : PublishArticleJob(url, ok, TRUE, OneDraw)
  \/ \E h \in ForeignHeaders : ForeignPublish(h)
  \/ \E j \in JobIds : Deliver(j)
  \/ \E j \in JobIds, out \in GenOutcomes : GenerateDone(j, out)
  \/ \E j \in JobIds, w \in WebhookOutcomes : WebhookDone(j, w)
  \/ \E j \in JobIds : TimerFire(j)
  \/ Tick
  \/ \E c \in 1..MaxChannels : ConnectionClose(c)

Spec == Init /\ [][Next]_vars

\* the same worker with the broker connection staying up, every generator call and
\* webhook POST returning, timers firing and the broker delivering ready messages
NextStable ==
  \/ \E ok \in BOOLEAN : InitializeServices(ok)
  \/ \E ok \in BOOLEAN : StartQueueConsumer(ok)
  \/ \E url \in BOOLEAN, ok \in BOOLEAN : PublishArticleJob(url, ok, TRUE, OneDraw)
  \/ \E h \in ForeignHeaders : ForeignPublish(h)
  \/ \E j \in JobIds : Deliver(j)
  \/ \E j \in JobIds, out \in GenOutcomes : GenerateDone(j, out)
  \/ \E j \in JobIds, w \in WebhookOutcomes : WebhookDone(j, w)
  \/ \E j \in JobIds : TimerFire(j)
  \/ Tick

Fairness ==
  /\ WF_vars(Tick)
  /\ \A j \in JobIds :
       /\ SF_vars(Deliver(j))
       /\ WF_vars(\E out \in GenOutcomes : GenerateDone(j, out))
       /\ WF_vars(\E w \in WebhookOutcomes : WebhookDone(j, w))
       /\ WF_vars(TimerFire(j))

SpecFair == Init /\ [][NextStable]_vars /\ Fairness

\* the worker on the jobs its own publisher queues, connection losses included
NextOwn ==
  \/ \E ok \in BOOLEAN : InitializeServices(ok)
  \/ \E ok \in BOOLEAN : StartQueueConsumer(ok)
  \/ \E url \in BOOLEAN, ok \in BOOLEAN : PublishArticleJob(url, ok, TRUE, OneDraw)
  \/ \E j \in JobIds : Deliver(j)
  \/ \E j \in JobIds, out \in GenOutcomes : GenerateDone(j, out)
  \/ \E j \in JobIds, w \in WebhookOutcomes : WebhookDone(j, w)
  \/ \E j \in JobIds : TimerFire(j)
  \/ Tick
  \/ \E c \in 1..MaxChannels : ConnectionClose(c)

SpecOwn == Init /\ [][NextOwn]_vars

\* the same with fair scheduling: timers fire, generator calls and webhook POSTs
\* return, and the broker delivers what it may deliver
SpecLossy == Init /\ [][NextOwn]_vars /\ Fairness

\* the worker when the queue also gets a message that is already at the retry cap
NextCapped ==
  \/ NextOwn
  \/ ForeignPublish(MaxRetries)

SpecCapped == Init /\ [][NextCapped]_vars

\* the broker closes a channel and leaves its connection open (a channel-level
\* error): connect() puts listeners on the connection only, so this.channel keeps
\* the closed channel; the broker requeues what was unacknowledged on it
ChannelClose(c) ==
  /\ ~uncaught
  /\ c \in openChans
  /\ openChans' = openChans \ {c}
  /\ jobs' = BrokerReleaseChan(jobs, c)
  /\ consumerChan' = IF consumerChan = c THEN 0 ELSE consumerChan
  /\ UNCHANGED <<articleService, channel, connection, nextChan, openConns,
                 consumerStarted, prefetch, cb, uncaught, foreignCount, gateVars,
                 frontVars>>

\* the worker on a broker that may close channels as well as connections
NextSettle ==
  \/ NextOwn
  \/ \E c \in 1..MaxChannels : ChannelClose(c)

SpecSettle == Init /\ [][NextSettle]_vars

\* ----------------------------------------------------------------- shutdown
\* QueueService.close(): one try block around
\*   `if (this.channel) { await this.channel.close(); this.channel = null }`
\*   `if (this.connection) { await this.connection.close(); this.connection = null }`
\* and a catch that logs. Closing a channel or a connection that is closed already
\* rejects (IllegalOperationError), and a rejection skips the rest of the block.
\* A connection that closes takes its channel with it and runs the 'close' listener.
\* released: the channels closed by this call, whose deliveries the broker requeues
CloseEffect ==
  LET chanRejects == channel # 0 /\ channel \notin openChans
      chanClosed == channel # 0 /\ channel \in openChans
      connTried == ~chanRejects /\ connection # 0
      connClosed == connTried /\ connection \in openConns
      viaChan == IF chanClosed THEN {channel} ELSE {}
      viaConn == IF connClosed THEN {connection} \cap openChans ELSE {}
  IN [channel |-> IF chanClosed THEN 0
                  ELSE IF connClosed THEN OnClose(channel, connection)
                  ELSE channel,
      connection |-> IF connClosed THEN 0 ELSE connection,
      openChans |-> openChans \ (viaChan \cup viaConn),
      openConns |-> IF connClosed THEN openConns \ {connection} ELSE openConns,
      released |-> viaChan \cup viaConn]

RECURSIVE ReleaseAll(_, _)
\* the broker requeues what was unacknowledged on each of the closed channels
ReleaseAll(js, chans) ==
  IF chans = {} THEN js
  ELSE LET c == CHOOSE x \in chans : TRUE
       IN ReleaseAll(BrokerReleaseChan(js, c), chans \ {c})

\* SIGINT or SIGTERM arrives: the handler awaits queueService.close() and goes on to
\* chromeManager.close() and prisma.$disconnect() before process.exit(0); until
\* then the callbacks and timers of the process keep running
Close ==
  /\ ~uncaught
  /\ shutdown = "none"
  /\ shutdown' = "closed"
  /\ LET e == CloseEffect IN
       /\ channel' = e.channel
       /\ connection' = e.connection
       /\ openChans' = e.openChans
       /\ openConns' = e.openConns
       /\ jobs' = ReleaseAll(jobs, e.released)
       /\ consumerChan' = IF consumerChan \in e.released THEN 0 ELSE consumerChan
  /\ UNCHANGED <<articleService, nextChan, consumerStarted, prefetch, cb, uncaught,
                 foreignCount, gateVars, clock, hits, lastSubmit, lastAccess, lastAdmin,
                 qcalls, hook>>

\* isConnected(): `this.connection !== null && this.channel !== null`
IsConnected(conn, chan) == conn # 0 /\ chan # 0

\* the worker up to and after the signal that ends the process, on a broker that
\* may close channels as well as connections
NextShutdown ==
  \/ NextSettle
  \/ Close

SpecShutdown == Init /\ [][NextShutdown]_vars

\* the worker on a queue that other producers write to as well, with any content
NextShared ==
  \/ NextOwn
  \/ GarbagePublish

SpecShared == Init /\ [][NextShared]_vars

\* ----------------------------------------------------------- ledger and gate
\* the x-forwarded-for headers and socket addresses requests arrive with
Forwards == {<<>>} \cup {<<a>> : a \in Ips} \cup {<<Blank, a>> : a \in Ips}
                   \cup {<<p[1], p[2]>> : p \in {q \in Ips \X Ips : q[1] # q[2]}}
Sockets == Ips \cup {Blank}

\* the values Math.random() may return where the middleware draws one: pickQuote
\* is called on the BLACKLIST branch only
Draws(seen) == IF seen = "BLACKLIST" THEN 0..(RandomGrain - 1) ELSE {0}

\* ipAccessMiddleware on one public request: resolve the ip, getByIp, respond
IpAccessMiddleware(fwd, sock, dbOk) ==
  LET ip == ResolveIp(fwd, sock)
      seen == IF dbOk THEN ledger[ip].status ELSE "error"
  IN /\ \E r \in Draws(seen) :
          LET resp == GateResponse(seen, r)
          IN lastGate' = [ip |-> ip, row |-> ledger[ip].status, seen |-> seen,
                          out |-> resp.out, msg |-> resp.msg, quote |-> resp.quote]
     /\ UNCHANGED <<ledger, inflight, adminKey, workerVars, frontVars>>

RECURSIVE SumUpTo(_, _)
SumUpTo(f, n) == IF n = 0 THEN 0 ELSE f[n] + SumUpTo(f, n - 1)

\* requestIp calls that are between their findUnique and their create
InflightCalls == SumUpTo(inflight, MaxIps)

\* POST /api/ip/request -> requestIp, up to the row it returns or the create it
\* goes on to: findUnique finds the row (returned as it is), or finds none
RequestIpLookup(ip, dbOk) ==
  /\ InflightCalls < MaxInflight
  /\ IF dbOk /\ ledger[ip].status = "ABSENT"
       THEN inflight' = [inflight EXCEPT ![ip] = @ + 1]
       ELSE UNCHANGED inflight
  /\ UNCHANGED <<ledger, adminKey, lastGate, workerVars, frontVars>>

\* requestIp after the lookup found no row: ipAccess.create; the unique index on ip
\* rejects the insert when a row for the ip exists by now
RequestIpCreate(ip, note) ==
  /\ inflight[ip] > 0
  /\ inflight' = [inflight EXCEPT ![ip] = @ - 1]
  /\ ledger' = [ledger EXCEPT ![ip] = CreateOutcome(@, ip, note, clock).row]
  /\ UNCHANGED <<adminKey, lastGate, workerVars, frontVars>>

\* `!adminKey || req.headers['x-admin-key'] !== adminKey` is false; hk = 0 is a
\* request without the header
Authorized(hk) == adminKey # 0 /\ hk = adminKey

\* PATCH /api/ip/:id/status with x-admin-key header hk: 403 unless the key is set
\* and equal, 400 for a status outside the three, else updateStatus (which throws
\* when no row has the id)
PatchStatus(id, status, hk) ==
  /\ IF Authorized(hk) /\ status \in Statuses /\ ledger[id].status # "ABSENT"
       THEN ledger' = [ledger EXCEPT ![id] = UpdatedRow(@, status, clock)]
       ELSE UNCHANGED ledger
  /\ UNCHANGED <<inflight, adminKey, lastGate, workerVars, frontVars>>

NextGate ==
  \/ \E fwd \in Forwards, sock \in Sockets, dbOk \in BOOLEAN :
       IpAccessMiddleware(fwd, sock, dbOk)
  \/ \E ip \in Ips, dbOk \in BOOLEAN : InflightCalls = 0 /\ RequestIpLookup(ip, dbOk)
  \/ \E ip \in Ips : RequestIpCreate(ip, 0)
  \/ \E id \in Ips, status \in Statuses \cup {"OTHER"}, hk \in 0..2 :
       PatchStatus(id, status, hk)

\* the gate with the routes that change what it reads; the gate never reads a
\* row's note, so the access requests here carry none and come one at a time
SpecGate == InitGate /\ [][NextGate]_vars

\* ------------------------------------------------- access requests, observed
\* POST /api/ip/request up to the end of requestIp's findUnique: a lookup that
\* throws is answered 500, a row found is returned as it is
AccessLookup(ip, dbOk) ==
  /\ InflightCalls < MaxInflight
  /\ IF ~dbOk
       THEN /\ lastAccess' = [ip |-> ip, out |-> "unavailable", status |-> "none",
                              note |-> 0]
            /\ UNCHANGED inflight
       ELSE IF ledger[ip].status # "ABSENT"
         THEN /\ lastAccess' = [ip |-> ip, out |-> "existing",
                                status |-> ledger[ip].status, note |-> ledger[ip].note]
              /\ UNCHANGED inflight
         ELSE /\ inflight' = [inflight EXCEPT ![ip] = @ + 1]
              /\ UNCHANGED lastAccess
  /\ UNCHANGED <<ledger, adminKey, lastGate, workerVars, qcalls, hook, shutdown, clock, hits, lastSubmit,
                 lastAdmin>>

\* the same call after its lookup found no row: ipAccess.create, whose row is
\* returned; what create throws reaches the route's catch block (500)
AccessCreate(ip, note) ==
  /\ inflight[ip] > 0
  /\ inflight' = [inflight EXCEPT ![ip] = @ - 1]
  /\ LET c == CreateOutcome(ledger[ip], ip, note, clock) IN
       /\ ledger' = [ledger EXCEPT ![ip] = c.row]
       /\ lastAccess' = IF c.threw
                          THEN [ip |-> ip, out |-> "conflict", status |-> "none",
                                note |-> 0]
                          ELSE [ip |-> ip, out |-> "created", status |-> c.row.status,
                                note |-> c.row.note]
  /\ UNCHANGED <<adminKey, lastGate, workerVars, qcalls, hook, shutdown, clock, hits, lastSubmit, lastAdmin>>

\* a server with ADMIN_API_KEY set
\* (the access requests below need an admin to reach the other statuses)
InitAccess == WorkerInit /\ LedgerInit /\ FrontInit /\ adminKey = 1

NextAccess ==
  \/ \E ip \in Ips, dbOk \in BOOLEAN : AccessLookup(ip, dbOk)
  \/ \E ip \in Ips, note \in Notes : AccessCreate(ip, note)
  \/ \E id \in Ips, status \in Statuses : PatchStatus(id, status, adminKey)

\* concurrent access requests, with the admin changing statuses in between
SpecAccess == InitAccess /\ [][NextAccess]_vars

\* the gate on requests with every header and socket address, while clients ask
\* for access and the admin whitelists them
NextResolve ==
  \/ \E fwd \in Forwards, sock \in Sockets, dbOk \in BOOLEAN :
       IpAccessMiddleware(fwd, sock, dbOk)
  \/ \E ip \in Ips : InflightCalls = 0 /\ RequestIpLookup(ip, TRUE)
  \/ \E ip \in Ips : RequestIpCreate(ip, 0)
  \/ \E id \in Ips : PatchStatus(id, "WHITELIST", adminKey)

SpecResolve == InitAccess /\ [][NextResolve]_vars

\* ------------------------------------------------------------------ claims
Terminal(j) == jobs[j].st \in {"acked", "dropped"}
InCallback(j) == cb[j].pc \in {"generating", "webhook", "backoff"}

\* C1: retry cap. The worker requeues one job at most 3 times (so its handler runs
\* at most 4 times); the failure seen with retry count 3 is rejected without requeue.
C1_RetryCap ==
  \A j \in JobIds : jobs[j].requeues <= MaxRetries

\* C2: retry count increment. A delivery that follows the worker's requeue of a
\* delivery with retry count n carries retry count n + 1.
C2_RetryCountIncrement ==
  \A j \in JobIds :
    (InCallback(j) /\ cb[j].prevRc >= 0) => cb[j].rc = cb[j].prevRc + 1

\* C3: eventual termination. With the connection up, fair scheduling and every
\* generator call returning, each delivered job is eventually acknowledged or
\* rejected without requeue.
C3_EveryJobTerminates ==
  \A j \in JobIds : (jobs[j].st = "unacked") ~> Terminal(j)

\* what holds of a delivery whose handler failed
C4_DecisionState ==
  \A j \in JobIds :
    cb[j].handler = "threw" =>
      /\ cb[j].settle # "ack"
      /\ (cb[j].pc = "backoff" \/ cb[j].settle = "requeue") => cb[j].rc < 3
      /\ cb[j].settle = "drop" => cb[j].rc >= 3

\* the step in which the handler fails while the delivering channel is held
C4_DecisionStep ==
  \A j \in JobIds :
    ( /\ cb[j].pc \in {"generating", "webhook"}
      /\ cb'[j].handler = "threw"
      /\ channel # 0 /\ channel = cb[j].chan /\ channel \in openChans )
    => IF cb[j].rc < 3
         THEN cb'[j].pc = "backoff" /\ jobs'[j].st = "unacked"
         ELSE cb'[j].settle = "drop" /\ jobs'[j].st = "dropped"

\* C4: failure decision rule. For a delivery whose handler failed the worker never
\* calls ack; a requeueing nack is scheduled or issued only for a retry count below
\* 3 and a nack without requeue only for 3 or more; and when the handler fails
\* while the delivering channel is held, a retry count below 3 starts the delayed
\* requeue and a retry count of 3 or more is rejected without requeue at once.
C4_FailureDecisionRule == []C4_DecisionState /\ [][C4_DecisionStep]_vars

C4_Witness ==
  \E j, k \in JobIds :
    /\ cb[j].handler = "threw" /\ cb[j].settle = "drop" /\ cb[j].rc = 3
    /\ cb[k].handler = "threw" /\ cb[k].settle = "requeue" /\ cb[k].effect = "ok"

\* the steps that set a backoff timer and that issue its requeueing nack
C5_BackoffStep ==
  \A j \in JobIds :
    /\ (cb[j].pc # "backoff" /\ cb'[j].pc = "backoff")
         => /\ cb'[j].remaining = Pow2(cb[j].rc) * 1000
            /\ cb'[j].remaining <= 4000
            /\ cb'[j].waited = 0
    /\ (cb[j].settle # "requeue" /\ cb'[j].settle = "requeue")
         => /\ cb[j].pc = "backoff"
            /\ cb'[j].pc = "done"
            /\ cb[j].waited >= Pow2(cb[j].rc) * 1000

\* C5: backoff delay. The requeueing nack of a failed delivery with retry count n
\* is issued by its timer no earlier than 2^n seconds after the failure; the delay
\* set is 1, 2 or 4 seconds; and each failed delivery gets at most one such nack
\* (the step that issues it ends the callback's timer).
C5_BackoffDelay == [][C5_BackoffStep]_vars

C5_Witness ==
  \E j \in JobIds :
    cb[j].pc = "done" /\ cb[j].settle = "requeue" /\ cb[j].effect = "ok" /\ cb[j].rc = 2

\* what holds of a delivery whose webhook POST has ended
C6_WebhookState ==
  \A j \in JobIds :
    cb[j].wh # "none" =>
      /\ cb[j].gen = "ok"
      /\ cb[j].handler = "returned"
      /\ (cb[j].pc = "backoff" \/ cb[j].settle \in {"requeue", "drop"})
           => cb[j].ackThrew

\* the step in which the webhook POST ends while the delivering channel is held
C6_WebhookStep ==
  \A j \in JobIds :
    ( /\ cb[j].pc = "webhook"
      /\ cb'[j].pc # "webhook"
      /\ channel # 0 /\ channel = cb[j].chan /\ channel \in openChans )
    => /\ cb'[j].settle = "ack"
       /\ jobs'[j].st = "acked"

\* C6: a webhook failure never changes the settle outcome. Whatever the webhook
\* POST did, the handler returns normally; no nack is scheduled or issued for such
\* a delivery unless ack itself raised; and when the POST ends while the
\* delivering channel is held, the delivery is acknowledged in that step.
C6_WebhookNeverChangesOutcome == []C6_WebhookState /\ [][C6_WebhookStep]_vars

C6_Witness ==
  \E j \in JobIds :
    /\ cb[j].wh = "fail"
    /\ cb[j].settle = "ack" /\ cb[j].effect = "ok"
    /\ jobs[j].st = "acked"

C8_GateState ==
  /\ lastGate.seen = "ABSENT" => lastGate.out = "403" /\ lastGate.msg = "request"
  /\ lastGate.seen = "PENDING" => lastGate.out = "403" /\ lastGate.msg = "waiting"
  /\ lastGate.seen = "WHITELIST" => lastGate.out = "next"
  /\ lastGate.out = "next" => lastGate.seen \in {"WHITELIST", "error"}

\* the status the gate sees is the row's, and a new row is Pending
C8_GateStep ==
  /\ lastGate' # lastGate =>
       /\ ledger' = ledger
       /\ lastGate'.seen \in {"error", ledger[lastGate'.ip].status}
  /\ \A ip \in Ips :
       (ledger[ip].status = "ABSENT" /\ ledger'[ip].status # "ABSENT")
         => ledger'[ip].status = "PENDING"

\* C8: admission by ledger status. The gate answers from the status of the row of
\* the request's ip: no row is rejected with the request-access instruction,
\* Pending is rejected as waiting approval, Whitelist is admitted, and a request
\* is admitted only if its row is Whitelist or the lookup raised an error; the
\* gate changes no row, and a row that requestIp creates is Pending.
C8_AdmissionByStatus == []C8_GateState /\ [][C8_GateStep]_vars

C8_Witness ==
  /\ lastGate.out = "next"
  /\ lastGate.seen = "WHITELIST"
  /\ lastGate.ip \in Ips
  /\ ledger[lastGate.ip].status = "WHITELIST"

\* C9 as stated: a request from an ip whose row is Blacklist is always rejected,
\* with one of the ten fixed phrases as its message.
C9_BlacklistAlwaysRejected ==
  lastGate.row = "BLACKLIST" =>
    /\ lastGate.out = "403"
    /\ lastGate.msg = "quote"
    /\ lastGate.quote \in 0..(NumQuotes - 1)

\* C9: a request from an ip whose row is Blacklist, when the ledger lookup does not
\* raise, is rejected, and its message is one of the ten fixed phrases, never the
\* waiting-approval or request-access text.
C9_BlacklistPhrase ==
  (lastGate.row = "BLACKLIST" /\ lastGate.seen # "error") =>
    /\ lastGate.seen = "BLACKLIST"
    /\ lastGate.out = "403"
    /\ lastGate.msg = "quote"
    /\ lastGate.quote \in 0..(NumQuotes - 1)

C9_Witness ==
  /\ lastGate.row = "BLACKLIST"
  /\ lastGate.seen = "BLACKLIST"
  /\ lastGate.msg = "quote"
  /\ lastGate.quote = NumQuotes - 1

\* C10: fail open. A request whose ledger lookup raised is passed on, never rejected.
C10_FailOpen ==
  lastGate.seen = "error" => lastGate.out = "next" /\ lastGate.msg = "none"

C10_Witness ==
  /\ lastGate.seen = "error"
  /\ lastGate.out = "next"
  /\ lastGate.row = "BLACKLIST"

\* ------------------------------------------------------ admin calls, observed
Rows == 1..MaxRows

\* the routes of the articles router in the order createArticleRoutes registers
\* them; ":" is a path parameter
ArticleRoutes ==
  << [method |-> "POST",  pat |-> <<"create">>,            name |-> "create"],
     [method |-> "POST",  pat |-> <<"generate-public">>,   name |-> "generate-public"],
     [method |-> "GET",   pat |-> <<>>,                    name |-> "articles"],
     [method |-> "GET",   pat |-> <<":">>,                 name |-> "article"],
     [method |-> "PATCH", pat |-> <<":", "status">>,       name |-> "articleStatus"],
     [method |-> "GET",   pat |-> <<"queue", "status">>,   name |-> "queueStatus"],
     [method |-> "POST",  pat |-> <<"ip", "request">>,     name |-> "ipRequest"],
     [method |-> "GET",   pat |-> <<"ip">>,                name |-> "list"],
     [method |-> "PATCH", pat |-> <<"ip", ":", "status">>, name |-> "patch"] >>

\* Express matches a route when the method is the route's and every path segment
\* equals the pattern's or the pattern has a parameter there
Matches(route, method, path) ==
  /\ route.method = method
  /\ Len(route.pat) = Len(path)
  /\ \A i \in 1..Len(path) : route.pat[i] = ":" \/ route.pat[i] = path[i]

\* the handler that answers a request to the articles router: the first route
\* that matches, none of these handlers passing the request on
ArticleHandler(method, path) ==
  LET hit == {i \in 1..Len(ArticleRoutes) : Matches(ArticleRoutes[i], method, path)}
  IN IF hit = {} THEN "none"
     ELSE ArticleRoutes[CHOOSE i \in hit : \A k \in hit : i <= k].name

\* the handler an admin call reaches: /api/ip has the two admin routes alone;
\* /api/articles first answers 503 while the article service is not set
AdminHandler(mount, method, path, op) ==
  IF mount = "ip" THEN op
  ELSE IF ~articleService THEN "unready"
  ELSE ArticleHandler(method, path)

\* variant: the status is handed to updateStatus as it comes
SetStatusReply_Unchecked(id, status, hk) ==
  IF ~Authorized(hk)
    THEN [resp |-> "403", row |-> ledger[id], read |-> FALSE, wrote |-> FALSE]
  ELSE IF ledger[id].status = "ABSENT"
    THEN [resp |-> "500", row |-> ledger[id], read |-> TRUE, wrote |-> FALSE]
  ELSE [resp |-> "200", row |-> UpdatedRow(ledger[id], status, clock),
        read |-> TRUE, wrote |-> TRUE]

\* the set-status handler: 403 without the key, 400 for a status outside the
\* three, else updateStatus, which throws (500) when no row has the id
SetStatusReply(id, status, hk) ==
  IF ~Authorized(hk)
    THEN [resp |-> "403", row |-> ledger[id], read |-> FALSE, wrote |-> FALSE]
  ELSE IF status \notin Statuses
    THEN [resp |-> "400", row |-> ledger[id], read |-> FALSE, wrote |-> FALSE]
  ELSE IF ledger[id].status = "ABSENT"
    THEN [resp |-> "500", row |-> ledger[id], read |-> TRUE, wrote |-> FALSE]
  ELSE [resp |-> "200", row |-> UpdatedRow(ledger[id], status, clock),
        read |-> TRUE, wrote |-> TRUE]

\* the list handler: 403 without the key, else ipAccessService.list()
ListReply(hk) ==
  IF ~Authorized(hk)
    THEN [resp |-> "403", read |-> FALSE, wrote |-> FALSE]
    ELSE [resp |-> "200", read |-> TRUE, wrote |-> FALSE]

\* what a handler other than the admin ones answers to an admin call: the
\* article lookup finds no article under the id "ip"
OtherReply(handler) ==
  [resp |-> IF handler = "unready" THEN "503"
            ELSE IF handler = "article" THEN "404" ELSE "none",
   read |-> FALSE, wrote |-> FALSE]

\* PATCH <mount>/:id/status with x-admin-key header hk
AdminPatch(mount, id, status, hk) ==
  LET handler == AdminHandler(mount, "PATCH", <<"ip", "id", "status">>, "patch")
      r == IF handler = "patch" THEN SetStatusReply(id, status, hk)
           ELSE OtherReply(handler) @@ [row |-> ledger[id]]
  IN /\ ledger' = [ledger EXCEPT ![id] = r.row]
     /\ lastAdmin' = [mount |-> mount, op |-> "patch", id |-> id, status |-> status,
                      authorized |-> Authorized(hk), resp |-> r.resp,
                      read |-> r.read, wrote |-> r.wrote]
     /\ UNCHANGED <<inflight, adminKey, lastGate, workerVars, qcalls, hook, shutdown, clock, hits, lastSubmit,
                    lastAccess>>

\* GET <mount> with x-admin-key header hk
AdminList(mount, hk) ==
  LET handler == AdminHandler(mount, "GET", <<"ip">>, "list")
      r == IF handler = "list" THEN ListReply(hk) ELSE OtherReply(handler)
  IN /\ lastAdmin' = [mount |-> mount, op |-> "list", id |-> Unknown,
                      status |-> "none", authorized |-> Authorized(hk),
                      resp |-> r.resp, read |-> r.read, wrote |-> r.wrote]
     /\ UNCHANGED <<ledger, inflight, adminKey, lastGate, workerVars, qcalls, hook, shutdown, clock, hits,
                    lastSubmit, lastAccess>>

\* a millisecond passes
ClockTick ==
  /\ clock < MaxClock
  /\ clock' = clock + 1
  /\ UNCHANGED <<workerVars, qcalls, hook, shutdown, gateVars, hits, lastSubmit, lastAccess, lastAdmin>>

\* the admin routes of /api/ip at work on entries that access requests create
NextAdmin ==
  \/ \E ip \in Rows : InflightCalls = 0 /\ RequestIpLookup(ip, TRUE)
  \/ \E ip \in Rows : RequestIpCreate(ip, 0)
  \/ \E id \in Rows, status \in Statuses \cup {"OTHER"}, hk \in 0..2 :
       AdminPatch("ip", id, status, hk)
  \/ \E hk \in 0..2 : AdminList("ip", hk)
  \/ ClockTick

SpecAdmin == InitGate /\ [][NextAdmin]_vars

\* the admin routes of both mounts, /api/ip and /api/articles/ip, on a server
\* that runs with or without ADMIN_API_KEY
NextAuth ==
  \/ \E connOk \in BOOLEAN : InitializeServices(connOk)
  \/ \E ip \in Rows : InflightCalls = 0 /\ RequestIpLookup(ip, TRUE)
  \/ \E ip \in Rows : RequestIpCreate(ip, 0)
  \/ \E mount \in {"ip", "articles"}, id \in Rows,
        status \in Statuses \cup {"OTHER"}, hk \in 0..2 :
       AdminPatch(mount, id, status, hk)
  \/ \E mount \in {"ip", "articles"}, hk \in 0..2 : AdminList(mount, hk)

SpecAuth == InitGate /\ [][NextAuth]_vars

\* the gate in front of a generation route, with the ip resolved from the socket
\* address
GateCheck(sock, dbOk) == IpAccessMiddleware(<<>>, sock, dbOk)

\* every operation that touches the ledger: access requests, the admin's list and
\* set-status, and the gate's lookup
NextLifecycle ==
  \/ \E ip \in Rows : InflightCalls = 0 /\ RequestIpLookup(ip, TRUE)
  \/ \E ip \in Rows : RequestIpCreate(ip, 0)
  \/ \E id \in Rows, status \in Statuses, hk \in 0..1 : PatchStatus(id, status, hk)
  \/ \E hk \in 0..1 : AdminList("ip", hk)
  \/ \E sock \in Rows, dbOk \in BOOLEAN : GateCheck(sock, dbOk)
  \/ ClockTick

SpecLifecycle == InitAccess /\ [][NextLifecycle]_vars

\* the publisher called again and again as time passes, nothing consuming
NextIds ==
  \/ \E url \in BOOLEAN, ok \in BOOLEAN, sent \in BOOLEAN, d \in IdDraws :
       PublishArticleJob(url, ok, sent, d)
  \/ ClockTick

SpecIds == Init /\ [][NextIds]_vars

\* ------------------------------------------- generation routes, observed
\* variant: the public route without the ip check
Chain_NoGate(route) == <<"rate">>

\* variant: every generation route behind the ip check
Chain_GateAll(route) == <<"gate", "rate">>

\* the middlewares in front of a generation route's handler, in the order the
\* route registers them
Chain(route) ==
  IF route = "create" THEN <<"rate">>
  ELSE IF route = "generate-public" THEN <<"gate", "rate">>
  ELSE <<>>

\* the limiter: a client that has had max requests in the window is turned away
Limited(count) == count >= RateMax

\* a request on its way through the middlewares: alive while each one called next()
Arriving(route, ip) ==
  [NoSubmit EXCEPT !.route = route, !.ip = ip] @@ [alive |-> TRUE, counted |-> FALSE]

\* one middleware at work on a request that is still alive: the ip check answers
\* 403 or calls next() as GateResponse says; the limiter answers 429 or counts
\* the request and calls next()
Through(req, mw, seen, r) ==
  IF ~req.alive THEN req
  ELSE IF mw = "gate"
    THEN LET out == GateResponse(seen, r).out
         IN [req EXCEPT !.lookedUp = TRUE, !.gate = out, !.alive = (out = "next"),
                        !.resp = IF out = "next" THEN @ ELSE "403"]
  ELSE IF Limited(hits[req.ip])
    THEN [req EXCEPT !.limited = TRUE, !.alive = FALSE, !.resp = "429"]
  ELSE [req EXCEPT !.counted = TRUE]

RECURSIVE ThroughAll(_, _, _, _)
ThroughAll(req, chain, seen, r) ==
  IF chain = <<>> THEN req
  ELSE ThroughAll(Through(req, Head(chain), seen, r), Tail(chain), seen, r)

\* the fields the observer keeps of a request
Observed(req) ==
  [f \in DOMAIN NoSubmit |-> req[f]]

\* POST /api/articles/<route> from client ip: the mount's 503 while the article
\* service is not set, the route's middlewares, then the handler: the body is
\* parsed (400), the job published (500 when that throws), 'queued' answered.
\* dbOk: getByIp answers; r: the draw for a blacklist phrase
Submit(route, ip, dbOk, r, valid, url, connOk, sent) ==
  LET seen == IF dbOk THEN ledger[ip].status ELSE "error"
      req == IF articleService
               THEN ThroughAll(Arriving(route, ip), Chain(route), seen, r)
               ELSE [Arriving(route, ip) EXCEPT !.alive = FALSE, !.resp = "503"]
      calls == req.alive /\ valid
  IN /\ ~uncaught
     /\ calls => FreeIds # {}
     /\ hits' = IF req.counted THEN [hits EXCEPT ![ip] = @ + 1] ELSE hits
     /\ IF calls
          THEN LET p == PublishEffect(url, connOk, sent, OneDraw)
               IN /\ ApplyConn(p.e)
                  /\ jobs' = p.jobs
                  /\ lastSubmit' = [Observed(req) EXCEPT
                                      !.tried = TRUE,
                                      !.published = (p.jobs # jobs),
                                      !.sent = sent,
                                      !.slot = IF p.jobs # jobs THEN p.slot ELSE 0,
                                      !.resp = IF p.threw THEN "500" ELSE "queued"]
          ELSE /\ lastSubmit' = [Observed(req) EXCEPT
                                   !.resp = IF req.alive THEN "400" ELSE @]
               /\ UNCHANGED <<channel, connection, nextChan, openConns, openChans,
                              jobs>>
     /\ UNCHANGED <<articleService, consumerStarted, consumerChan, prefetch, cb,
                    uncaught, foreignCount, gateVars, qcalls, hook, shutdown, clock,
                    lastAccess, lastAdmin>>

\* the limiter's window of a client runs out
WindowExpire(ip) ==
  /\ hits[ip] > 0
  /\ hits' = [hits EXCEPT ![ip] = 0]
  /\ UNCHANGED <<workerVars, qcalls, hook, shutdown, gateVars, clock, lastSubmit, lastAccess, lastAdmin>>

\* POST /api/articles/create
NextQueued ==
  \/ \E ok \in BOOLEAN : InitializeServices(ok)
  \/ \E ip \in Rows, valid \in BOOLEAN, ok \in BOOLEAN, sent \in BOOLEAN :
       Submit("create", ip, TRUE, 0, valid, FALSE, ok, sent)
  \/ \E ip \in Rows : WindowExpire(ip)
  \/ \E c \in 1..MaxChannels : ConnectionClose(c)

SpecQueued == Init /\ [][NextQueued]_vars

\* POST /api/articles/generate-public, with access requests and the admin at work
NextAdmit ==
  \/ InitializeServices(TRUE)
  \/ \E ip \in Rows : InflightCalls = 0 /\ RequestIpLookup(ip, TRUE)
  \/ \E ip \in Rows : RequestIpCreate(ip, 0)
  \/ \E id \in Rows, status \in Statuses : PatchStatus(id, status, adminKey)
  \/ \E ip \in Rows, dbOk \in BOOLEAN, valid \in BOOLEAN, sent \in BOOLEAN :
       Submit("generate-public", ip, dbOk, 0, valid, FALSE, TRUE, sent)
  \/ \E ip \in Rows : WindowExpire(ip)

SpecAdmit == InitAccess /\ [][NextAdmit]_vars

\* POST /api/articles/create from clients whose ledger entries come and change
NextInternal ==
  \/ InitializeServices(TRUE)
  \/ \E ip \in Rows : InflightCalls = 0 /\ RequestIpLookup(ip, TRUE)
  \/ \E ip \in Rows : RequestIpCreate(ip, 0)
  \/ \E id \in Rows, status \in Statuses : PatchStatus(id, status, adminKey)
  \/ \E ip \in Rows, dbOk \in BOOLEAN, valid \in BOOLEAN, sent \in BOOLEAN :
       Submit("create", ip, dbOk, 0, valid, FALSE, TRUE, sent)
  \/ \E ip \in Rows : WindowExpire(ip)

SpecInternal == InitAccess /\ [][NextInternal]_vars

\* POST /api/articles/create and PATCH /api/ip/:id/status with bodies that pass
\* and bodies that fail their validation
NextInvalid ==
  \/ InitializeServices(TRUE)
  \/ \E ip \in Rows : InflightCalls = 0 /\ RequestIpLookup(ip, TRUE)
  \/ \E ip \in Rows : RequestIpCreate(ip, 0)
  \/ \E id \in Rows, status \in {"WHITELIST", "OTHER"}, hk \in 0..2 :
       AdminPatch("ip", id, status, hk)
  \/ \E ip \in Rows, valid \in BOOLEAN :
       Submit("create", ip, TRUE, 0, valid, FALSE, TRUE, TRUE)

SpecInvalid == InitGate /\ [][NextInvalid]_vars

\* ------------------------------------------- lazy connect, await by await
\* the frame of a step of a QueueService call
CallFrame ==
  UNCHANGED <<articleService, cb, uncaught, foreignCount, gateVars, clock, hits,
              lastSubmit, lastAccess, lastAdmin, hook, shutdown>>

\* the operation proper, run without a suspension point after the channel test:
\*   publish: jobId, `if (!this.channel) throw`, channel.publish, `if (!published)`
\*   consume: `if (!this.channel) throw`, channel.prefetch, channel.consume
\*   status:  `if (!this.channel) throw`, channel.checkQueue
\* a channel that is closed throws from the library
Operate(c, call, sent) ==
  LET id == IF c = "publish" THEN JobId(clock, OneDraw) ELSE NoId
      open == channel # 0 /\ channel \in openChans
      j == CHOOSE k \in FreeIds : \A m \in FreeIds : k <= m
      threw == IF c = "publish" THEN PublishThrew(~open, sent) ELSE ~open
  IN /\ qcalls' = [qcalls EXCEPT ![c] = [call EXCEPT !.pc = "idle", !.id = id,
                                                   !.used = channel,
                                                   !.out = IF threw THEN "threw"
                                                           ELSE "ok"]]
     /\ jobs' = IF c = "publish" /\ open
                  THEN [jobs EXCEPT ![j] = [PublishedMessage(FALSE, id, clock)
                                              EXCEPT !.ret = ~threw]]
                  ELSE jobs
     /\ IF c = "consume" /\ open
          THEN /\ consumerChan' = channel
               /\ prefetch' = Prefetch(ConsumerPrefetch)
          ELSE UNCHANGED <<consumerChan, prefetch>>

\* a call begins: `if (!this.channel) await this.connect()`, whose first statement
\* is amqp.connect(); with a channel held the operation runs at once.
\* The server listens, and calls startQueueConsumer for the one consume call, only
\* after initializeServices has returned
Enter(c, sent) ==
  /\ ~uncaught
  /\ articleService
  /\ qcalls[c].pc = "idle"
  /\ c = "publish" => FreeIds # {}
  /\ c = "consume" => ~consumerStarted
  /\ consumerStarted' = (consumerStarted \/ c = "consume")
  /\ IF channel = 0
       THEN /\ qcalls' = [qcalls EXCEPT ![c] = [IdleCall EXCEPT !.pc = "dial",
                                                              !.lazy = TRUE]]
            /\ UNCHANGED <<jobs, consumerChan, prefetch>>
       ELSE Operate(c, IdleCall, sent)
  /\ UNCHANGED <<channel, connection, nextChan, openConns, openChans>>
  /\ CallFrame

\* amqp.connect() settles: `this.connection = ...`, the two listeners are put on it
\* and createChannel() is called; a rejection is rethrown by connect() and ends the
\* call
Dial(c, ok) ==
  /\ qcalls[c].pc = "dial"
  /\ IF ok /\ nextChan <= MaxChannels
       THEN /\ connection' = nextChan
            /\ openConns' = openConns \cup {nextChan}
            /\ nextChan' = nextChan + 1
            /\ qcalls' = [qcalls EXCEPT ![c].pc = "open", ![c].conn = nextChan]
       ELSE /\ qcalls' = [qcalls EXCEPT ![c].pc = "idle", ![c].out = "threw"]
            /\ UNCHANGED <<connection, openConns, nextChan>>
  /\ UNCHANGED <<channel, openChans, consumerStarted, consumerChan, prefetch, jobs>>
  /\ CallFrame

\* createChannel() settles: `this.channel = ...` and assertExchange is called on it;
\* on a connection that has closed meanwhile it rejects
Open(c) ==
  /\ qcalls[c].pc = "open"
  /\ IF qcalls[c].conn \in openConns
       THEN /\ channel' = qcalls[c].conn
            /\ openChans' = openChans \cup {qcalls[c].conn}
            /\ qcalls' = [qcalls EXCEPT ![c].pc = "declare"]
       ELSE /\ qcalls' = [qcalls EXCEPT ![c].pc = "idle", ![c].out = "threw"]
            /\ UNCHANGED <<channel, openChans>>
  /\ UNCHANGED <<connection, nextChan, openConns, consumerStarted, consumerChan,
                 prefetch, jobs>>
  /\ CallFrame

\* assertExchange settles on the call's own channel, then assertQueue and bindQueue
\* are called on `this.channel` as it is by then: null throws a TypeError, a closed
\* channel rejects, and connect() rethrows either
Declare(c) ==
  /\ qcalls[c].pc = "declare"
  /\ IF qcalls[c].conn \in openChans /\ channel # 0 /\ channel \in openChans
       THEN qcalls' = [qcalls EXCEPT ![c].pc = "resume", ![c].declared = TRUE]
       ELSE qcalls' = [qcalls EXCEPT ![c].pc = "idle", ![c].out = "threw"]
  /\ UNCHANGED <<channel, connection, nextChan, openConns, openChans, consumerStarted,
                 consumerChan, prefetch, jobs>>
  /\ CallFrame

\* connect() has returned and the call goes on after its await
Resume(c, sent) ==
  /\ qcalls[c].pc = "resume"
  /\ Operate(c, qcalls[c], sent)
  /\ UNCHANGED <<channel, connection, nextChan, openConns, openChans, consumerStarted>>
  /\ CallFrame

\* the calls of the process interleaved at their awaits, on a broker whose
\* connections may close at any time
NextConnect ==
  \/ \E ok \in BOOLEAN : InitializeServices(ok)
  \/ \E c \in Callers, sent \in BOOLEAN : Enter(c, sent)
  \/ \E c \in Callers, ok \in BOOLEAN : Dial(c, ok)
  \/ \E c \in Callers : Open(c)
  \/ \E c \in Callers : Declare(c)
  \/ \E c \in Callers, sent \in BOOLEAN : Resume(c, sent)
  \/ \E n \in 1..MaxChannels : ConnectionClose(n)

SpecConnect == Init /\ [][NextConnect]_vars

\* ------------------------------------------------------- webhook notifier
\* the result object posted on success: `{ success: true, jobId: job.id, data:
\* article }`
WebhookPayload(jobId, data) == [success |-> TRUE, jobId |-> jobId, data |-> data]

\* JSON.stringify(payload): the text of the object, its members in insertion order
Serialize(p) ==
  <<"{", "success", ":", IF p.success THEN "true" ELSE "false", ",",
    "jobId", ":", p.jobId, ",", "data", ":", p.data, "}">>

\* crypto.createHmac('sha256', secret).update(bodyString).digest('hex'): the digest
\* is determined by key and text, and stands for them
HmacSha256Hex(secret, bodyString) == <<"sha256", "hex", secret, bodyString>>

\* variant: any secret that is defined signs
Signs_Defined(secret) == secret # NoSecret

\* `if (secret)` / `if (job.webhookSecret)`: undefined and '' are falsy
Signs(secret) == secret # NoSecret /\ secret # EmptySecret

\* the request axios.post(url, bodyString, { headers, timeout: 10000 }) sends for
\* notification h: bodyString is serialized once and is both what is signed and what
\* is sent; X-Webhook-Type is set by sendWebhook when a type is given
Post(h, type) ==
  LET bodyString == Serialize(WebhookPayload(h.jobId, h.data)) IN
    [h EXCEPT !.st = "posted", !.posted = TRUE, !.body = bodyString,
              !.contentType = "application/json",
              !.signature = IF Signs(h.secret)
                              THEN HmacSha256Hex(h.secret, bodyString)
                              ELSE NoSignature,
              !.type = type]

HookFrame ==
  UNCHANGED <<workerVars, gateVars, clock, hits, lastSubmit, lastAccess, lastAdmin,
              qcalls, shutdown>>

\* processArticleJob after a successful generation: `if (job.webhookUrl) { ... }`;
\* whatever the POST throws is logged and dropped
NotifyFromWorker(w) ==
  /\ hook.st = "idle"
  /\ hook' = IF hook.url
               THEN [Post(hook, "none") EXCEPT
                       !.by = "worker", !.outcome = w,
                       !.rejected = (w # "ok" /\ WebhookFailureThrows(w))]
               ELSE [hook EXCEPT !.st = "skipped", !.by = "worker"]
  /\ HookFrame

\* how a sendWebhook call may end: the POST's outcomes, and JSON.stringify throwing
\* on a payload it cannot serialize
SendOutcomes == WebhookOutcomes \cup {"unserializable"}

\* variant: the catch block rethrows
SendWebhookRejects_Propagate(w) == w # "ok"

\* sendWebhook's body is one try block whose catch logs and returns
SendWebhookRejects(w) == FALSE

\* WebhookService.sendWebhook({ url, secret, payload, jobId, type }); a url that
\* names no host makes the POST fail like an unreachable one
SendWebhook(type, w) ==
  /\ hook.st = "idle"
  /\ ~hook.url => w \in {"unreachable", "unserializable"}
  /\ hook' = IF w = "unserializable"
               THEN [hook EXCEPT !.st = "returned", !.by = "service", !.outcome = w,
                                 !.rejected = SendWebhookRejects(w)]
               ELSE [Post(hook, type) EXCEPT
                       !.by = "service", !.outcome = w,
                       !.rejected = SendWebhookRejects(w)]
  /\ HookFrame

\* the notifications a finished job may ask for
HookInputs ==
  {[NoHook EXCEPT !.url = u, !.secret = k, !.jobId = j, !.data = a] :
     u \in BOOLEAN, k \in Secrets, j \in JobIds, a \in 1..MaxArticles}

InitWebhook ==
  /\ WorkerInit /\ LedgerInit /\ AnswersInit /\ adminKey = 0
  /\ qcalls = [c \in Callers |-> IdleCall]
  /\ shutdown = "none"
  /\ hook \in HookInputs

NextWebhook ==
  \/ \E w \in WebhookOutcomes : NotifyFromWorker(w)
  \/ \E type \in HookTypes, w \in SendOutcomes : SendWebhook(type, w)

SpecWebhook == InitWebhook /\ [][NextWebhook]_vars

\* a step of requestIp: a call's lookup or create
AccessStep == lastAccess' # lastAccess \/ inflight' # inflight

C13_Step ==
  /\ AccessStep =>
       \A ip \in Ips : ledger[ip].status # "ABSENT" => ledger'[ip] = ledger[ip]
  /\ (lastAccess' # lastAccess /\ lastAccess'.out = "existing") =>
       /\ ledger' = ledger
       /\ ledger[lastAccess'.ip].status # "ABSENT"
       /\ lastAccess'.status = ledger[lastAccess'.ip].status
       /\ lastAccess'.note = ledger[lastAccess'.ip].note
  /\ \A ip \in Ips :
       (ledger[ip].status = "ABSENT" /\ ledger'[ip].status # "ABSENT") =>
         /\ ledger'[ip].status = "PENDING"
         /\ lastAccess' = [ip |-> ip, out |-> "created", status |-> "PENDING",
                           note |-> ledger'[ip].note]
         /\ \A other \in Keys \ {ip} : ledger'[other] = ledger[other]

\* C13: requestAccess is a create-or-fetch. A call for an ip without a row creates
\* that ip's row, as Pending, and changes no other row; a call for an ip that has a
\* row returns that row's status and note and changes nothing; and no step of any
\* call changes a row that exists (no status is reset, no note overwritten).
C13_CreateOrFetch == [][C13_Step]_vars

C13_Witness ==
  /\ lastAccess.out = "existing"
  /\ lastAccess.status = "BLACKLIST"
  /\ lastAccess.note = 1
  /\ \E ip \in Ips : inflight[ip] > 0 /\ ledger[ip].status = "WHITELIST"

\* C14: of concurrent requestAccess calls for one new ip none fails: each call
\* that the database answers ends with the ip's row, created or found.
C14_RaceResolves ==
  lastAccess.out \in {"none", "created", "existing", "unavailable"}

\* a step in which the set-status handler of /api/ip updates entry id to status
SetStatusDone(id, status) ==
  \E hk \in 0..2 :
    /\ AdminPatch("ip", id, status, hk)
    /\ SetStatusReply(id, status, hk).wrote

C15_Step ==
  \A ip \in Ips :
    /\ ledger'[ip].approvedAt # ledger[ip].approvedAt
         => /\ SetStatusDone(ip, "WHITELIST")
            /\ ledger'[ip].approvedAt = clock
    /\ \A status \in Statuses :
         SetStatusDone(ip, status)
           => ledger'[ip].approvedAt =
                IF status = "WHITELIST" THEN clock ELSE ledger[ip].approvedAt

\* C15: an entry's approvedAt changes only in a setStatus to WHITELIST, which
\* stamps it with the current time; a setStatus to PENDING or BLACKLIST leaves
\* it as it was; an entry that was never whitelisted has none, and a
\* whitelisted entry has one.
C15_ApprovedAtStamping ==
  /\ [][C15_Step]_vars
  /\ [](\A ip \in Ips : ledger[ip].status = "WHITELIST"
                           => ledger[ip].approvedAt # NullTime)

\* an entry approved at an earlier time and blacklisted now keeps its stamp
C15_Witness ==
  \E ip \in Rows :
    /\ ledger[ip].status = "BLACKLIST"
    /\ ledger[ip].approvedAt # NullTime
    /\ ledger[ip].approvedAt < clock
    /\ lastAdmin.op = "patch" /\ lastAdmin.id = ip
    /\ lastAdmin.status = "BLACKLIST" /\ lastAdmin.resp = "200"

C18_Step ==
  \A id \in Rows, to \in Statuses, hk \in 0..2 :
    ( /\ AdminPatch("ip", id, to, hk)
      /\ Authorized(hk)
      /\ ledger[id].status \in Statuses )
      => /\ lastAdmin'.resp = "200"
         /\ ledger'[id].status = to

\* C18: an authorized setStatus to any of the three statuses on an entry in any
\* of the three statuses is answered 200 and leaves the entry in the status
\* asked for.
C18_AnyToAny == [][C18_Step]_vars

\* an entry that was whitelisted is pending again by an authorized setStatus
C18_Witness ==
  \E id \in Rows :
    /\ ledger[id].status = "PENDING"
    /\ ledger[id].approvedAt # NullTime
    /\ lastAdmin.op = "patch" /\ lastAdmin.id = id /\ lastAdmin.authorized
    /\ lastAdmin.status = "PENDING" /\ lastAdmin.resp = "200"

\* C17: an admin call is carried out only with the configured key in its
\* header; every admin call without it is answered 403 and neither reads nor
\* writes the ledger.
C17_AdminAuthorization ==
  lastAdmin.op # "none"
    => /\ (lastAdmin.read \/ lastAdmin.wrote) => lastAdmin.authorized
       /\ ~lastAdmin.authorized => lastAdmin.resp = "403"

C16_Step ==
  \A ip \in Ips :
    ledger[ip].status # "ABSENT"
      => /\ ledger'[ip].status # "ABSENT"
         /\ ledger'[ip].ip = ledger[ip].ip
         /\ ledger'[ip].requestedAt = ledger[ip].requestedAt
         /\ ledger'[ip].status # ledger[ip].status
              => \E hk \in 0..1 :
                   Authorized(hk) /\ PatchStatus(ip, ledger'[ip].status, hk)

\* C16: an entry, once created, is never removed; its ip and requestedAt stay
\* as created; and its status changes only in a step of the admin's authorized
\* set-status, never in an access request, a list or the gate's check.
C16_LedgerLifecycle == [][C16_Step]_vars

\* the gate has just rejected a blacklisted entry that was created earlier and
\* whose status the admin changed since
C16_Witness ==
  \E ip \in Rows :
    /\ ledger[ip].status = "BLACKLIST"
    /\ ledger[ip].ip = ip
    /\ ledger[ip].requestedAt < clock
    /\ lastGate.ip = ip /\ lastGate.out = "403"
    /\ lastAdmin.op = "list" /\ lastAdmin.read

\* C19: no two publish calls that returned have returned the same job id, and
\* every published message's messageId is the id in its body.
C19_JobIdsUnique ==
  /\ \A j \in JobIds, k \in JobIds :
       (j # k /\ jobs[j].ret /\ jobs[k].ret) => jobs[j].id # jobs[k].id
  /\ \A j \in JobIds : jobs[j].src = "pub" => jobs[j].mid = jobs[j].id

\* C11: a request to a generation endpoint that the rate limiter turns away has
\* caused no ledger lookup and no publish.
C11_RateLimitFirst ==
  lastSubmit.limited
    => ~lastSubmit.lookedUp /\ ~lastSubmit.tried /\ ~lastSubmit.published

C12_Step ==
  jobs' # jobs
    => /\ lastSubmit'.route = "generate-public"
       /\ lastSubmit'.gate = "next"
       /\ ~lastSubmit'.limited
       /\ ~Limited(hits[lastSubmit'.ip])
       /\ lastSubmit'.published

\* C12: on the public endpoint a job is published only in a request that the ip
\* check let through and the rate limiter counted; a request answered 403 or 429
\* never called the publisher.
C12_NoQueueWithoutAdmission ==
  /\ [][C12_Step]_vars
  /\ [](lastSubmit.resp \in {"403", "429"}
          => ~lastSubmit.tried /\ ~lastSubmit.published)

\* jobs are queued, the client's entry has been blacklisted since, and its next
\* request is answered 403
C12_Witness ==
  /\ lastSubmit.resp = "403"
  /\ ledger[lastSubmit.ip].status = "BLACKLIST"
  /\ \E j \in JobIds : jobs[j].src = "pub"
  /\ FreeIds # {}

\* C20: 'queued' is answered only when publishArticleJob was called, the message
\* went to the broker and publish() returned true; a call that failed to
\* connect, found the channel closed or was refused by flow control is answered
\* 500.
C20_QueuedOnlyAfterPublish ==
  /\ lastSubmit.resp = "queued"
       => /\ lastSubmit.tried /\ lastSubmit.published /\ lastSubmit.sent
          /\ jobs[lastSubmit.slot].ret
  /\ (lastSubmit.tried /\ ~(lastSubmit.published /\ lastSubmit.sent))
       => lastSubmit.resp = "500"

\* publish() returned false: the caller got 500 for a message that went out
C20_Witness ==
  /\ lastSubmit.tried /\ lastSubmit.published /\ ~lastSubmit.sent
  /\ lastSubmit.resp = "500"

InQueue(j) == jobs[j].st \in {"ready", "unacked"}

C22_Step ==
  \A j \in JobIds :
    /\ (InQueue(j) /\ jobs'[j].st \in {"ready", "unacked"})
         => /\ jobs'[j].id = jobs[j].id
            /\ jobs'[j].mid = jobs[j].mid
            /\ jobs'[j].url = jobs[j].url
            /\ jobs'[j].createdAt = jobs[j].createdAt
            /\ jobs'[j].hdr = jobs[j].hdr
            /\ jobs'[j].src = jobs[j].src
    /\ (cb[j].pc = "done" /\ jobs[j].st = "ready" /\ jobs'[j].st = "unacked")
         => cb'[j].rc >= cb[j].rc

\* C22: a message in the queue keeps the id, createdAt, webhook fields, messageId
\* and headers it was published with through every delivery and requeue; a
\* delivery never reads a lower retry count than the delivery of the same message
\* before it; and a message the publisher built carries no retry count.
C22_JobImmutable ==
  /\ [][C22_Step]_vars
  /\ [](\A j \in JobIds : jobs[j].src = "pub" => jobs[j].hdr = NoHeader)

\* a published job with webhook fields in its third delivery
C22_Witness ==
  \E j \in JobIds :
    /\ jobs[j].src = "pub" /\ jobs[j].url /\ jobs[j].id # NoId
    /\ jobs[j].st = "unacked"
    /\ jobs[j].requeues >= 2

\* C25: no exception escapes the message callback or the timer it sets, whatever
\* the delivered message holds and whatever the handler, ack and nack do.
C25_NothingEscapes == ~uncaught

\* C26: while a failed delivery waits for its delayed requeue, the broker can
\* hand any other ready message to the consumer.
C26_BackoffDoesNotBlock ==
  \A j \in JobIds, k \in JobIds :
    ( /\ cb[j].pc = "backoff"
      /\ k # j
      /\ jobs[k].st = "ready"
      /\ consumerChan # 0 /\ consumerChan \in openChans )
      => ENABLED Deliver(k)

C29_Step ==
  \A j \in JobIds, out \in GenOutcomes :
    (GenerateDone(j, out) /\ ~(out[1] /\ out[2]))
      => /\ cb'[j].handler = "threw"
         /\ cb'[j].settle # "ack"
         /\ jobs'[j].st # "acked"
         /\ (channel # 0 /\ channel = cb[j].chan /\ channel \in openChans)
              => (cb'[j].pc = "backoff" \/ cb'[j].settle = "drop")

\* C29: ack is called only for a delivery whose generation succeeded with
\* content and whose handler returned; a generator result that reports failure
\* (a timeout included) or has no content makes the handler throw, and the
\* delivery takes the retry path.
C29_AckOnlyOnSuccess ==
  /\ [][C29_Step]_vars
  /\ [](\A j \in JobIds :
          (cb[j].settle = "ack" \/ jobs[j].st = "acked")
            => (cb[j].gen = "ok" /\ cb[j].handler = "returned"))

\* one job acknowledged after a generation that succeeded, another in the retry
\* path after a generation that failed
C29_Witness ==
  \E j \in JobIds :
    /\ jobs[j].st = "acked"
    /\ jobs[j].requeues = 0
    /\ cb[j].gen = "ok" /\ cb[j].settle = "ack" /\ cb[j].effect = "ok"
    /\ \E k \in JobIds : k # j /\ cb[k].gen = "fail" /\ cb[k].pc = "backoff"

C28_Step ==
  \A ip \in Rows, dbOk \in BOOLEAN :
    ( /\ Submit("create", ip, dbOk, 0, TRUE, FALSE, TRUE, TRUE)
      /\ articleService
      /\ hits[ip] < RateMax
      /\ (channel = 0 => nextChan <= MaxChannels)
      /\ (channel # 0 => channel \in openChans) )
      => /\ lastSubmit'.resp = "queued"
         /\ jobs' # jobs

\* C28: a request to the internal create endpoint never reads the ledger and is
\* never answered by the ip check; with a valid body, under the rate limit and
\* with the broker taking the message it is queued whatever the ledger holds for
\* its ip.
C28_InternalBypass ==
  /\ [][C28_Step]_vars
  /\ [](lastSubmit.route = "create"
          => /\ ~lastSubmit.lookedUp
             /\ lastSubmit.gate = "none"
             /\ lastSubmit.resp # "403")

\* a blacklisted client's job is queued through the create endpoint
C28_Witness ==
  /\ lastSubmit.route = "create"
  /\ lastSubmit.resp = "queued"
  /\ ledger[lastSubmit.ip].status = "BLACKLIST"

\* the process holds an open channel from some point on
ConnectionStaysUp == <>[](channel # 0 /\ channel \in openChans /\ ~uncaught)

\* C30: once the consumer has been subscribed, a job that is ready in the queue
\* while the process holds an open channel again is eventually delivered,
\* provided that channel stays up.
C30_ConsumptionResumes ==
  ConnectionStaysUp
    => \A j \in JobIds :
         (prefetch # 0 /\ jobs[j].st = "ready") ~> (jobs[j].st # "ready")

\* C21: a publish call that has begun to connect to the broker has made its jobId
\* already: the id is assigned before the connection is opened.
C21_IdBeforeBroker ==
  qcalls["publish"].pc \in {"dial", "open", "declare", "resume"}
    => qcalls["publish"].id # NoId

\* a step in which call c invokes its operation on a channel
Uses(c) == qcalls'[c] # qcalls[c] /\ qcalls'[c].used # 0

C23_Step ==
  \A c \in Callers :
    /\ (qcalls[c].pc = "idle" /\ qcalls'[c].pc # "idle")
         => channel = 0 /\ qcalls'[c].pc = "dial"
    /\ (qcalls[c].pc = "idle" /\ qcalls'[c] # qcalls[c] /\ channel = 0)
         => qcalls'[c].pc = "dial" /\ qcalls'[c].used = 0
    /\ (qcalls'[c] # qcalls[c] /\ qcalls'[c].out = "ok")
         => /\ Uses(c)
            /\ qcalls'[c].lazy => qcalls'[c].declared
    /\ Uses(c)
         => /\ qcalls'[c].used = channel
            /\ channel \in openConns
            /\ channel \in openChans

\* C23: a publish, consume or status call that finds no channel held connects
\* before anything else; a call that connected goes on only after its connect()
\* has declared exchange, queue and binding; and every channel an operation is
\* invoked on is open, on an open connection, as is the channel held at any time.
C23_LazyReconnect ==
  /\ [][C23_Step]_vars
  /\ [](channel # 0 => channel \in openConns /\ channel \in openChans)

\* after a connection closed, a call has connected anew and run its operation on
\* the channel of the second connection
C23_Witness ==
  \E c \in Callers :
    /\ qcalls[c].out = "ok" /\ qcalls[c].lazy /\ qcalls[c].declared
    /\ qcalls[c].used = 2 /\ 1 \notin openConns /\ 2 \in openConns

\* C24: the process never has more than one broker connection open, and an open
\* connection is the one the connection field holds.
C24_OneConnection ==
  /\ Cardinality(openConns) <= 1
  /\ \A n \in openConns : n = connection

\* C27: a webhook POST carries the signature header exactly when the job's secret
\* is a non-empty string, and the header is the hex HMAC-SHA256, keyed with that
\* secret, of the very body that is sent, which is the serialized result object.
C27_SignatureOverSentBody ==
  hook.posted
    => /\ (hook.signature # NoSignature) <=> (hook.secret \in 1..MaxSecrets)
       /\ hook.signature # NoSignature
            => hook.signature = HmacSha256Hex(hook.secret, hook.body)
       /\ hook.body = Serialize(WebhookPayload(hook.jobId, hook.data))
       /\ hook.contentType = "application/json"

\* a notification with a non-empty secret has been posted, signed
C27_Witness ==
  hook.posted /\ hook.secret = 1 /\ hook.signature # NoSignature

\* C31: when channel.ack raises after a successful generation the worker takes no
\* further settle action on that delivery: it schedules no requeue and calls no
\* nack, so ack stays the last settle call of the callback.
C31_SettleErrorNotRetried ==
  \A j \in JobIds :
    cb[j].ackThrew => cb[j].pc # "backoff" /\ cb[j].settle = "ack"

\* C35: the nack of a backoff timer never reaches a channel other than the one
\* that delivered the message: no delayed requeue is issued with a delivery tag the
\* channel does not know.
C35_RequeueOnDeliveringChannel ==
  \A j \in JobIds : cb[j].settle = "requeue" => cb[j].effect # "stray"

\* C36: when publishArticleJob raised (the request was answered 500) no message of
\* that call went to the broker, so every published message in the queue belongs
\* to a call that returned its jobId.
C36_FailedPublishEnqueuesNothing ==
  /\ (lastSubmit.tried /\ lastSubmit.resp = "500") => ~lastSubmit.published
  /\ \A j \in JobIds : (jobs[j].src = "pub" /\ jobs[j].st # "absent") => jobs[j].ret

\* the callback of job j goes on to the webhook POST in this step
PostBegins(j) == cb[j].pc # "webhook" /\ cb'[j].pc = "webhook"

C32_Step ==
  \A j \in JobIds :
    /\ PostBegins(j)
         => /\ cb[j].pc = "generating" /\ cb[j].wh = "none"
            /\ cb'[j].gen = "ok" /\ jobs[j].url
    /\ (cb[j].pc = "generating" /\ cb'[j].pc # "generating"
          /\ cb'[j].gen = "ok" /\ jobs[j].url)
         => PostBegins(j)
    /\ (cb[j].pc = "webhook" /\ cb'[j].pc # "webhook")
         => cb'[j].pc # "generating" /\ cb'[j].wh # "none"
    /\ (cb'[j] # cb[j] /\ cb'[j].settle = "ack" /\ cb[j].settle # "ack" /\ jobs[j].url)
         => cb[j].pc = "webhook"

C32_State ==
  \A j \in JobIds :
    /\ cb[j].wh # "none" => cb[j].gen = "ok"
    /\ cb[j].pc = "webhook" => cb[j].gen = "ok" /\ jobs[j].src = "pub" /\ jobs[j].url
    /\ cb[j].gen = "fail" => cb[j].wh = "none" /\ cb[j].pc # "webhook"
    /\ (cb[j].pc = "backoff" /\ ~cb[j].ackThrew) => cb[j].wh = "none"
    /\ (cb[j].settle \in {"requeue", "drop"} /\ ~cb[j].ackThrew) => cb[j].wh = "none"

\* C32: within one delivery the webhook POST begins exactly when generation has
\* succeeded and the job carries a URL, it begins once, the ack of a job with a URL
\* is called only after the POST has settled, and a delivery whose generation
\* failed, whether it is requeued or dropped, has no POST.
C32_WebhookTiming == [][C32_Step]_vars /\ []C32_State

\* a job was generated, its POST made and failed, and it was acknowledged; and a
\* delivery at the retry cap was dropped without a POST
C32_Witness ==
  \E j, k \in JobIds :
    /\ cb[j].wh = "fail" /\ cb[j].settle = "ack" /\ cb[j].effect = "ok"
    /\ cb[k].gen = "fail" /\ cb[k].settle = "drop" /\ cb[k].wh = "none"

\* C33: a sendWebhook call that is over has resolved, whatever the url, the secret
\* and the payload were and however the POST ended: its promise never rejects.
C33_SendWebhookNeverFails ==
  (hook.by = "service" /\ hook.st # "idle")
    => /\ ~hook.rejected
       /\ hook.outcome \in SendOutcomes
       /\ hook.posted <=> hook.outcome # "unserializable"

\* a sendWebhook call whose POST timed out has returned
C33_Witness ==
  hook.by = "service" /\ hook.posted /\ hook.outcome = "timeout" /\ ~hook.rejected

\* a POST /create whose body fails validation
InvalidSubmit == \E ip \in Rows : Submit("create", ip, TRUE, 0, FALSE, FALSE, TRUE, TRUE)

\* a set-status call with a status outside the three
InvalidPatch(hk) == \E id \in Rows : AdminPatch("ip", id, "OTHER", hk)

C34_OriginalStep ==
  /\ InvalidSubmit => lastSubmit'.resp = "400" /\ jobs' = jobs
  /\ \A hk \in 0..2 :
       InvalidPatch(hk) => lastAdmin'.resp = "400" /\ ledger' = ledger

\* C34 as stated: a submission that fails validation is answered 400 and publishes
\* no job, and a set-status call with a status outside PENDING, WHITELIST,
\* BLACKLIST is answered 400 and leaves the ledger unchanged.
C34_InvalidAnswered400 == [][C34_OriginalStep]_vars

C34_Step ==
  /\ InvalidSubmit
       => /\ jobs' = jobs /\ channel' = channel /\ openConns' = openConns
          /\ ~lastSubmit'.tried /\ ~lastSubmit'.published
          /\ lastSubmit'.resp = IF ~articleService THEN "503"
                                ELSE IF lastSubmit'.limited THEN "429" ELSE "400"
  /\ \A hk \in 0..2 :
       InvalidPatch(hk)
         => /\ ledger' = ledger
            /\ ~lastAdmin'.wrote /\ ~lastAdmin'.read
            /\ lastAdmin'.resp = IF Authorized(hk) THEN "400" ELSE "403"

\* C34 amended: invalid input changes nothing. A submission that fails validation
\* publishes no job and does not touch the broker; it is answered 400 unless the
\* mount (503) or the rate limiter (429) answered before the body was looked at.
\* A set-status call with a status outside the three leaves the ledger unread and
\* unchanged; it is answered 400 with the admin key and 403 without it.
C34_InvalidChangesNothing == [][C34_Step]_vars

\* an invalid body was answered 400 and an invalid status with the key was
\* answered 400 on an existing row
C34_Witness ==
  /\ lastSubmit.resp = "400" /\ ~lastSubmit.tried
  /\ lastAdmin.op = "patch" /\ lastAdmin.status = "OTHER" /\ lastAdmin.authorized
  /\ lastAdmin.resp = "400" /\ ledger[lastAdmin.id].status # "ABSENT"

\* admit or reject, from the row of the ip alone
Decision(ip) == IF ledger[ip].status = "WHITELIST" THEN "next" ELSE "403"

C37_OriginalStep ==
  \A fwd \in Forwards, sock \in Sockets, dbOk \in BOOLEAN :
    IpAccessMiddleware(fwd, sock, dbOk)
      => /\ lastGate'.ip = IF fwd # <<>> THEN fwd[1] ELSE sock
         /\ lastGate'.out = Decision(lastGate'.ip)

\* C37 as stated: the ip looked up is the first entry of the forwarded-for header
\* when the header is present and non-empty, otherwise the socket address, and the
\* decision is determined by that ip and the ledger.
C37_FirstEntryElseSocket == [][C37_OriginalStep]_vars

C37_Step ==
  \A fwd \in Forwards, sock \in Sockets, dbOk \in BOOLEAN :
    IpAccessMiddleware(fwd, sock, dbOk)
      => /\ lastGate'.ip = IF fwd # <<>> /\ fwd[1] # Blank THEN fwd[1]
                           ELSE IF sock # Blank THEN sock ELSE Unknown
         /\ lastGate'.row = ledger[lastGate'.ip].status
         /\ dbOk => lastGate'.out = Decision(lastGate'.ip)
         /\ ~dbOk => lastGate'.out = "next"

\* C37 amended: the ip looked up is the first entry of the forwarded-for header
\* when that entry is not blank, otherwise the socket address, and 'unknown' when
\* there is none; when the lookup succeeds the decision is determined by that ip
\* and the ledger (admit exactly for Whitelist), whatever header and socket the
\* request came with, and a failed lookup admits.
C37_IpResolution == [][C37_Step]_vars

\* a request whose header names a whitelisted client first and another address
\* after it was admitted
C37_Witness ==
  /\ lastGate.ip \in Ips /\ lastGate.out = "next" /\ lastGate.seen = "WHITELIST"
  /\ \E other \in Ips : other # lastGate.ip /\ ledger[other].status # "WHITELIST"

\* C38: close releases everything. After close() returns, whether or not closing
\* the channel or the connection raised, the service holds neither channel nor
\* connection and isConnected() is false; and a backoff timer that fires after
\* close() returned issues no nack.
C38_CloseStep ==
  Close => /\ channel' = 0
           /\ connection' = 0
           /\ ~IsConnected(connection', channel')

C38_TimerStep ==
  \A j \in JobIds :
    (shutdown = "closed" /\ TimerFire(j))
      => cb'[j].settle # "requeue"

C38_CloseReleasesEverything == [][C38_CloseStep /\ C38_TimerStep]_vars

====
